---- MODULE Spec2Model ----
(***************************************************************************)
(* Model of the fulcrum-proxy mirror engine and proxy:                     *)
(*   - fetchWithRetry        (smartFulcrumMirror.js, src/unnamed/part_004) *)
(*   - runConcurrentSyncs    (smartFulcrumMirror.js, src/unnamed/part_004) *)
(*   - syncResource, saveBatch, streamParentIds, main      (the same file) *)
(*   - POST /call and GET /schema                          (src/server.js) *)
(* Each subsystem has its own specification (SpecFetch, SpecRun, SpecCall, *)
(* SpecSync, SpecSave, SpecSchema, SpecMain) over a shared set of          *)
(* variables; the variables of the subsystems that a specification does    *)
(* not exercise stay at their initial values.  SpecMark runs the direct    *)
(* branch of syncResource repeatedly while records are created upstream;   *)
(* SpecMirror runs it through POST /call against an upstream list;         *)
(* SpecFlush runs the fan-out branch with answers large enough to fill the *)
(* buffer; SpecChain runs a list endpoint and then a parameterized one;    *)
(* SpecStream runs streamParentIds and SpecAnalyze analyzeSchema on their  *)
(* own.                                                                    *)
(***************************************************************************)
EXTENDS Integers, Sequences, FiniteSets, TLC

VARIABLES
  \* ---- fetchWithRetry (one logical call) ----
  fr_pc,        \* "attempt" | "sleep429" | "sleepBackoff" | "returned" | "thrown"
  fr_i,         \* the loop variable i
  fr_log,       \* kinds of the responses of the HTTP attempts made so far
  fr_hint,      \* retry-after header of the last 429 (NoHeader when absent)
  fr_pending,   \* delay (ms) of the timer the call is currently awaiting
  fr_waits,     \* delays (ms) of the backoff timers awaited so far (catch branch)
  fr_lastWait,  \* the timer awaited last: [kind |-> "none" | "429" | "backoff", ms]
  fr_result,    \* "none" | "json" | "undefined" | "error"
  fr_err,       \* kind of the error thrown to the caller ("none" if none)
  \* ---- runConcurrentSyncs (one run) ----
  rn_pc,        \* "entry" | "loop" | "awaitAll" | "pause" | "returned"
  rn_paths,     \* argument paths
  rn_batchSize, \* argument batchSize
  rn_ordered,   \* const ordered
  rn_i,         \* the loop variable i
  rn_st,        \* per position of ordered: "idle" | "running" | "settled"
  rn_out,       \* per position: the value its promise settled with (NoOutcome before)
  rn_starts,    \* per position: number of syncResource calls made for it
  rn_waves,     \* the slices launched so far, in launch order
  rn_results,   \* const results
  rn_returned,  \* value returned by the run (<<>> before it returns)
  \* ---- POST /call (one request) ----
  cl_pc,        \* "idle" | "single" | "paging" | "done"
  cl_req,       \* path and autoPage/query fields of the request body
  cl_take,      \* const take
  cl_maxPages,  \* const maxPages
  cl_maxRows,   \* const maxRows
  cl_skip,      \* let skip
  cl_page,      \* the loop variable page
  cl_all,       \* const all, as the sequence of the page chunks pushed onto
                \* it: [fetch |-> j, n |-> c] stands for the c records of the
                \* j-th upstream answer, in the order of that answer
  cl_fetches,   \* upstream requests made so far with their answers: status
                \* (0: the fetch itself failed), whether the body is a list
                \* (bare array or items array) and the list's length
  cl_resp,      \* response sent to the client (NoResponse before)
  \* ---- the relational store ----
  db_exists,    \* names of the relations that exist
  db_rows,      \* per relation name: the payloads it holds, in insertion order
  db_cols,      \* per relation name: derived columns and indexes it has
  db_log,       \* rows of mirror_log, in insertion order
  db_meta,      \* table_name values of the rows of mirror_meta
  db_now,       \* the clock NOW() and new Date() read
  \* ---- saveBatch (one call) ----
  sv_pc,        \* "idle" | "create" | "batch" | "inserting" | "alter" |
                \* "returned" | "thrown"
  sv_resource,  \* argument resource
  sv_data,      \* argument data
  sv_i,         \* the loop variable i
  sv_queue,     \* inserts issued to the client and not yet executed
  \* ---- syncResource(client, path).catch(...) (one call) ----
  sy_pc,        \* "idle" | "entry" | "checkParent" | "stream" | "fetchId" |
                \* "flush" | "finalSave" | "fetchDirect" | "saveDirect" |
                \* "writeLog" | "analyze" | "thrown" | "done"
  sy_path,      \* argument path
  sy_resource,  \* const resource
  sy_since,     \* const sinceDate
  sy_total,     \* let total
  sy_parent,    \* const parentTable
  sy_offset,    \* offset of streamParentIds
  sy_ids,       \* identifiers of the current batch still to be processed
  sy_batchData, \* let batchData
  sy_data,      \* const data of the direct branch
  sy_fetches,   \* fetchJSON calls made: [path, since, got]
  sy_log0,      \* number of mirror_log rows when the call started
  sy_err,       \* message of the error the call rejected with ("" if none)
  sy_out,       \* value the caught promise settled with (NoOutcome before)
  \* ---- two successive saveBatch calls on one resource ----
  dv_pc,        \* "idle" | "first" | "second" | "end"
  dv_first,     \* records of the first call
  dv_second,    \* records of the second call
  dv_rows0,     \* rows of the relation before the first call
  \* ---- GET /schema of the proxy ----
  sc_pc,        \* "idle" | "fetching" | "responded"
  sc_cache,     \* SCHEMA_CACHE (NoCatalog for null)
  sc_cacheAt,   \* SCHEMA_CACHE_AT, in ms
  sc_clock,     \* Date.now(), in ms
  sc_reqNow,    \* const now of the getCatalog call in progress
  sc_cred,      \* x-proxy-secret header of the last request
  sc_resp,      \* response to the last request (NoResponse while pending)
  sc_fetches,   \* number of fetchSwagger calls made
  \* ---- main of the mirror ----
  mn_pc,        \* "idle" | "start" | "ensure" | "schema" | "running" |
                \* "report" | "finally" | "rejected" | "resolved" | "exited"
  mn_schema,    \* kind of the answer to the schema request ("none" before)
  mn_failed,    \* an error was thrown inside main
  mn_reported,  \* reportResults has run
  mn_exit,      \* exit code of the process (-1 while it runs)
  \* ---- the upstream list endpoint the mirror reads ----
  up_created,   \* creation time of each upstream record, in creation order:
                \* record k is the payload with identifier k
  \* ---- streamParentIds (one generator) ----
  st_pc,        \* "idle" | "query" | "end"
  st_table,     \* argument table
  st_batchSize, \* argument batchSize
  st_offset,    \* let offset
  st_yielded,   \* the batches yielded so far
  \* ---- analyzeSchema (one call) ----
  an_pc,        \* "idle" | "sampled" | "stored"
  an_rows,      \* the relation: per row the top-level keys of its payload
  an_keys,      \* const keys
  an_meta       \* the mirror_meta row of the resource

fetchVars == <<fr_pc, fr_i, fr_log, fr_hint, fr_pending, fr_waits, fr_lastWait,
               fr_result, fr_err>>

runVars == <<rn_pc, rn_paths, rn_batchSize, rn_ordered, rn_i, rn_st, rn_out,
             rn_starts, rn_waves, rn_results, rn_returned>>

callVars == <<cl_pc, cl_req, cl_take, cl_maxPages, cl_maxRows, cl_skip, cl_page,
              cl_all, cl_fetches, cl_resp>>

dbVars == <<db_exists, db_rows, db_cols, db_log, db_meta, db_now>>

saveVars == <<sv_pc, sv_resource, sv_data, sv_i, sv_queue>>

syncVars == <<sy_pc, sy_path, sy_resource, sy_since, sy_total, sy_parent,
              sy_offset, sy_ids, sy_batchData, sy_data, sy_fetches, sy_log0,
              sy_err, sy_out>>

driverVars == <<dv_pc, dv_first, dv_second, dv_rows0>>

storeVars == <<dbVars, saveVars, syncVars, driverVars>>

schemaVars == <<sc_pc, sc_cache, sc_cacheAt, sc_clock, sc_reqNow, sc_cred,
                sc_resp, sc_fetches>>

mainVars == <<mn_pc, mn_schema, mn_failed, mn_reported, mn_exit>>

upstreamVars == <<up_created>>

streamVars == <<st_pc, st_table, st_batchSize, st_offset, st_yielded>>

analyzeVars == <<an_pc, an_rows, an_keys, an_meta>>

vars == <<fetchVars, runVars, callVars, storeVars, schemaVars, mainVars,
          upstreamVars, streamVars, analyzeVars>>

\* the variables an action of one subsystem leaves alone
notFetchVars ==
  <<runVars, callVars, storeVars, schemaVars, mainVars, upstreamVars,
   streamVars, analyzeVars>>
notRunVars ==
  <<fetchVars, callVars, storeVars, schemaVars, mainVars, upstreamVars,
   streamVars, analyzeVars>>
notCallVars ==
  <<fetchVars, runVars, storeVars, schemaVars, mainVars, upstreamVars,
   streamVars, analyzeVars>>
notStoreVars ==
  <<fetchVars, runVars, callVars, schemaVars, mainVars, upstreamVars,
   streamVars, analyzeVars>>
notSchemaVars ==
  <<fetchVars, runVars, callVars, storeVars, mainVars, upstreamVars,
   streamVars, analyzeVars>>
notMainVars ==
  <<fetchVars, runVars, callVars, storeVars, schemaVars, upstreamVars,
   streamVars, analyzeVars>>

\* ------------------------------------------------------------------------
\* Bounds
\* ------------------------------------------------------------------------
MaxHintLen == 2       \* longest retry-after header value enumerated

MaxPaths == 3         \* longest list of endpoint paths given to a run
MaxTake == 3          \* largest in-range page size a request asks for
MaxPagesIn == 4       \* largest in-range maxPages a request asks for
MaxRowsIn == 5        \* largest in-range maxRows a request asks for
MaxRecords == 3       \* number of distinct payloads an upstream answer draws on
MaxLogInit == 2       \* most mirror_log rows earlier runs have left
MaxTicks == 4         \* number of 12-hour steps the clock of the proxy takes
MaxRuns == 2          \* successive runs of the mirror on one store
MaxSwaggerFetches == 3  \* number of fetchSwagger calls followed

\* ------------------------------------------------------------------------
\* fetchWithRetry: constants and pure helpers
\* ------------------------------------------------------------------------
retries == 5          \* default parameter retries = 5
backoff == 2000       \* default parameter backoff = 2000 (ms)

\* resp.headers.get() of an absent header is null, which parseInt reads as
\* the text "null"
NoHeader == <<"n", "u", "l", "l">>
NaN == -1             \* stands for the NaN result of parseInt (never a parsed value)

\* characters a retry-after header value is built from: two decimal digits
\* and one character that is not a digit
HintChars == {"0", "3", "x"}
Digits == {"0", "3"}

DigitVal(c) == IF c = "0" THEN 0 ELSE 3

HeaderValues ==
  {NoHeader} \cup UNION {[1..n -> HintChars] : n \in 1..MaxHintLen}

\* value of the longest prefix of decimal digits of s, given the value acc of
\* the digits consumed so far
RECURSIVE DigitPrefix(_, _)
DigitPrefix(s, acc) ==
  IF s = <<>> \/ Head(s) \notin Digits THEN acc
  ELSE DigitPrefix(Tail(s), acc * 10 + DigitVal(Head(s)))

\* parseInt(header): NaN unless the text starts with a digit
ParseInt(h) ==
  IF h = <<>> \/ Head(h) \notin Digits THEN NaN
  ELSE DigitPrefix(h, 0)

\* parseInt(resp.headers.get("retry-after")) || backoff / 1000
\* (NaN and 0 are both falsy)
RetryAfter(h) ==
  LET n == ParseInt(h) IN
    IF n = NaN \/ n = 0 THEN backoff \div 1000 ELSE n

RECURSIVE Pow2(_)
Pow2(n) == IF n = 0 THEN 1 ELSE 2 * Pow2(n - 1)

\* backoff * Math.pow(2, i)
BackoffDelayFlat(i) == backoff
BackoffDelay(i) == backoff * Pow2(i)

\* loop condition  i < retries
LoopContinuesOffByOne(i) == i <= retries
LoopContinues(i) == i < retries

\* catch:  if (i === retries - 1) throw e
IsLastAttempt(i) == i = retries - 1

\* ------------------------------------------------------------------------
\* fetchWithRetry: actions
\* ------------------------------------------------------------------------
\* the catch block, entered with an error of kind e at loop index fr_i
CatchError(e) ==
  IF IsLastAttempt(fr_i)
  THEN /\ fr_pc' = "thrown"
       /\ fr_result' = "error"
       /\ fr_err' = e
       /\ UNCHANGED <<fr_pending>>
  ELSE /\ fr_pc' = "sleepBackoff"
       /\ fr_pending' = BackoffDelay(fr_i)
       /\ UNCHANGED <<fr_result, fr_err>>

\* fetch resolves with a 2xx response whose body is valid JSON
AttemptOk ==
  /\ fr_pc = "attempt"
  /\ fr_log' = Append(fr_log, "ok")
  /\ fr_pc' = "returned"
  /\ fr_result' = "json"
  /\ UNCHANGED <<fr_i, fr_hint, fr_pending, fr_waits, fr_lastWait, fr_err,
                 notFetchVars>>

\* fetch resolves with status 429 and retry-after header h
Attempt429 ==
  /\ fr_pc = "attempt"
  /\ \E h \in HeaderValues :
       /\ fr_hint' = h
       /\ fr_pending' = RetryAfter(h) * 1000
  /\ fr_log' = Append(fr_log, "429")
  /\ fr_pc' = "sleep429"
  /\ UNCHANGED <<fr_i, fr_waits, fr_lastWait, fr_result, fr_err,
                 notFetchVars>>

\* fetch resolves with a non-ok status other than 429: throw new Error(...)
AttemptHttpError ==
  /\ fr_pc = "attempt"
  /\ fr_log' = Append(fr_log, "http")
  /\ CatchError("http")
  /\ UNCHANGED <<fr_i, fr_hint, fr_waits, fr_lastWait,
                 notFetchVars>>

\* fetch resolves with status 401 or 403: not ok, so the same
\* throw new Error(`${resp.status}: ...`) as for any other non-ok status
AttemptAuthError ==
  /\ fr_pc = "attempt"
  /\ fr_log' = Append(fr_log, "auth")
  /\ CatchError("http")
  /\ UNCHANGED <<fr_i, fr_hint, fr_waits, fr_lastWait,
                 notFetchVars>>

\* fetch itself rejects (transport failure)
AttemptTransportError ==
  /\ fr_pc = "attempt"
  /\ fr_log' = Append(fr_log, "transport")
  /\ CatchError("transport")
  /\ UNCHANGED <<fr_i, fr_hint, fr_waits, fr_lastWait,
                 notFetchVars>>

\* 2xx response whose body is not JSON: resp.json() rejects inside the try
AttemptBadJson ==
  /\ fr_pc = "attempt"
  /\ fr_log' = Append(fr_log, "badjson")
  /\ CatchError("badjson")
  /\ UNCHANGED <<fr_i, fr_hint, fr_waits, fr_lastWait,
                 notFetchVars>>

\* the rate-limit timer fires; `continue` runs i++ and re-tests the loop
\* condition; falling out of the loop ends the function without a return value
Sleep429Done ==
  /\ fr_pc = "sleep429"
  /\ fr_lastWait' = [kind |-> "429", ms |-> fr_pending]
  /\ fr_i' = fr_i + 1
  /\ IF LoopContinues(fr_i + 1)
     THEN /\ fr_pc' = "attempt"
          /\ UNCHANGED fr_result
     ELSE /\ fr_pc' = "returned"
          /\ fr_result' = "undefined"
  /\ UNCHANGED <<fr_log, fr_hint, fr_pending, fr_waits, fr_err,
                 notFetchVars>>

\* the backoff timer fires; the loop goes on with i++
SleepBackoffDone ==
  /\ fr_pc = "sleepBackoff"
  /\ fr_waits' = Append(fr_waits, fr_pending)
  /\ fr_lastWait' = [kind |-> "backoff", ms |-> fr_pending]
  /\ fr_i' = fr_i + 1
  /\ IF LoopContinues(fr_i + 1)
     THEN /\ fr_pc' = "attempt"
          /\ UNCHANGED fr_result
     ELSE /\ fr_pc' = "returned"
          /\ fr_result' = "undefined"
  /\ UNCHANGED <<fr_log, fr_hint, fr_pending, fr_err,
                 notFetchVars>>

NextFetch ==
  \/ AttemptOk
  \/ Attempt429
  \/ AttemptHttpError
  \/ AttemptAuthError
  \/ AttemptTransportError
  \/ AttemptBadJson
  \/ Sleep429Done
  \/ SleepBackoffDone

\* ------------------------------------------------------------------------
\* syncResource: pure helpers
\* ------------------------------------------------------------------------
\* path.startsWith(prefix)
StartsWith(p, prefix) ==
  Len(p) >= Len(prefix) /\ SubSeq(p, 1, Len(prefix)) = prefix

\* the character at position i of the text s, as a text of length 1
Char(s, i) == SubSeq(s, i, i)

LowerLetters == "abcdefghijklmnopqrstuvwxyz"
UpperLetters == "ABCDEFGHIJKLMNOPQRSTUVWXYZ"
DigitChars == "0123456789"

\* c is matched by [a-zA-Z0-9_]
IsIdentChar(c) ==
  LET cls == LowerLetters \o UpperLetters \o DigitChars \o "_" IN
    \E i \in 1..Len(cls) : Char(cls, i) = c

\* path.split("/"), cur being the segment read so far
RECURSIVE SplitSlash(_, _)
SplitSlash(s, cur) ==
  IF s = "" THEN <<cur>>
  ELSE IF Char(s, 1) = "/"
       THEN <<cur>> \o SplitSlash(SubSeq(s, 2, Len(s)), "")
       ELSE SplitSlash(SubSeq(s, 2, Len(s)), cur \o Char(s, 1))

\* the filter predicate  p && !p.startsWith("{") && p !== "api"
KeepSegment(p) == p # "" /\ ~StartsWith(p, "{") /\ p # "api"

\* .filter(...).join("_")
RECURSIVE JoinKept(_)
JoinKept(segs) ==
  IF segs = <<>> THEN ""
  ELSE LET rest == JoinKept(Tail(segs)) IN
         IF ~KeepSegment(Head(segs)) THEN rest
         ELSE IF \E k \in 1..Len(Tail(segs)) : KeepSegment(Tail(segs)[k])
              THEN Head(segs) \o "_" \o rest
              ELSE Head(segs)

\* .replace(/[^a-zA-Z0-9_]/g, "_")
SanitizeNot(s) == s
RECURSIVE Sanitize(_)
Sanitize(s) ==
  IF s = "" THEN ""
  ELSE (IF IsIdentChar(Char(s, 1)) THEN Char(s, 1) ELSE "_")
         \o Sanitize(SubSeq(s, 2, Len(s)))

\* const resource = path.split("/").filter(...).join("_").replace(...)
DeriveResource(path) == Sanitize(JoinKept(SplitSlash(path, "")))

\* the regex literal /{(\\w+)}/ : an opening brace, a backslash, one or more
\* letters w and a closing brace; <<i, n>> is a match starting at position i
\* with n letters w
ParamMatches(path) ==
  {m \in (1..Len(path)) \X (1..Len(path)) :
     /\ m[1] + m[2] + 2 <= Len(path)
     /\ Char(path, m[1]) = "{"
     /\ Char(path, m[1] + 1) = "\\"
     /\ \A k \in 1..m[2] : Char(path, m[1] + 1 + k) = "w"
     /\ Char(path, m[1] + 2 + m[2]) = "}"}

\* path.match(/{(\\w+)}/) is not null
HasParam(path) == ParamMatches(path) # {}

\* param[1]: the first capture group of the leftmost match
ParamName(path) ==
  LET m == CHOOSE m \in ParamMatches(path) :
             \A o \in ParamMatches(path) : m[1] <= o[1]
  IN SubSeq(path, m[1] + 1, m[1] + 1 + m[2])

\* .replace(/Id$/, "")
StripIdSuffix(s) ==
  IF Len(s) >= 2 /\ SubSeq(s, Len(s) - 1, Len(s)) = "Id"
  THEN SubSeq(s, 1, Len(s) - 2) ELSE s

\* .toLowerCase()
RECURSIVE ToLowerCase(_)
ToLowerCase(s) ==
  IF s = "" THEN ""
  ELSE LET c == Char(s, 1)
           up == {i \in 1..Len(UpperLetters) : Char(UpperLetters, i) = c}
       IN (IF up = {} THEN c ELSE Char(LowerLetters, CHOOSE i \in up : TRUE))
            \o ToLowerCase(SubSeq(s, 2, Len(s)))

\* const parentTable = paramName.replace(/Id$/, "").toLowerCase() + "s"
ParentTable(paramName) == ToLowerCase(StripIdSuffix(paramName)) \o "s"

\* path.replace(`{${paramName}}`, id): the first occurrence only
ReplaceParam(path, paramName, id) ==
  LET pat == "{" \o paramName \o "}"
      at == {i \in 1..Len(path) : i + Len(pat) - 1 <= Len(path)
                                  /\ SubSeq(path, i, i + Len(pat) - 1) = pat}
  IN IF at = {} THEN path
     ELSE LET i == CHOOSE i \in at : \A j \in at : i <= j IN
            SubSeq(path, 1, i - 1) \o id \o SubSeq(path, i + Len(pat), Len(path))

\* ------------------------------------------------------------------------
\* runConcurrentSyncs: helpers
\* ------------------------------------------------------------------------
PathUniverse ==
  {"/api/customers/list", "/api/items/list", "/api/jobs/list",
   "/api/invoices/list", "/api/items/{\\ww}/routing"}

BatchSizes == {1, 2, 5}     \* 5 is the default and the value main passes
RowCounts == {0, 2}         \* row counts a successful synchronization reports
ErrorMessages == {"500: upstream failure"}

Min(a, b) == IF a < b THEN a ELSE b

\* String.prototype.includes
Includes(p, k) ==
  \E i \in 1..(Len(p) - Len(k) + 1) : SubSeq(p, i, i + Len(k) - 1) = k

priority ==
  <<"items", "item-boms", "routing", "jobs", "workorders", "inventory",
    "materials", "customers", "vendors">>

\* priority.findIndex(k => p.includes(k)), 0-based, -1 when nothing matches
rank(p) ==
  LET hits == {k \in 1..Len(priority) : Includes(p, priority[k])} IN
    IF hits = {} THEN -1
    ELSE (CHOOSE k \in hits : \A m \in hits : k <= m) - 1

\* the comparator's key: (ra === -1 ? 99 : ra)
SortKeyRaw(p) == rank(p)
SortKey(p) == IF rank(p) = -1 THEN 99 ELSE rank(p)

\* insert p behind every element whose key is not larger (stable)
RECURSIVE InsertStable(_, _)
InsertStable(sorted, p) ==
  IF sorted = <<>> THEN <<p>>
  ELSE IF SortKey(Head(sorted)) <= SortKey(p)
       THEN <<Head(sorted)>> \o InsertStable(Tail(sorted), p)
       ELSE <<p>> \o sorted

\* paths.sort(comparator): Array.prototype.sort is stable
RECURSIVE sortDependencies(_)
sortDependencies(paths) ==
  IF paths = <<>> THEN <<>>
  ELSE InsertStable(sortDependencies(SubSeq(paths, 1, Len(paths) - 1)),
                    paths[Len(paths)])

\* positions of ordered.slice(i, i + batchSize), i 0-based
SlicePositionsWide(i, batchSize, n) == (i + 1)..Min(i + batchSize + 1, n)
SlicePositions(i, batchSize, n) == (i + 1)..Min(i + batchSize, n)

\* Promise.all over the slice resolves once every promise of it has settled
\* (none rejects: each carries its own catch handler)
WaveResolvedAny(st, slice) == \E k \in slice : st[k] = "settled"
WaveResolved(st, slice) == \A k \in slice : st[k] = "settled"

NoOutcome == [kind |-> "none"]

\* no mirror_meta row
NoMeta == [kind |-> "none"]

\* value syncResource resolves with after a completed synchronization
SyncOutcome(resource, n) ==
  [kind |-> "synced", resource |-> resource, rowcount |-> n, errors |-> <<>>]

\* value syncResource resolves with when the parent relation is missing
SkipOutcome(resource, parentTable) ==
  [kind |-> "skipped", resource |-> resource, rowcount |-> 0,
   errors |-> <<"missing parent " \o parentTable>>]

\* the catch handler: {resource:p, rowcount:0, errors:[e.message]}
CatchOutcomeSilent(p, e) ==
  [kind |-> "caught", resource |-> p, rowcount |-> 0, errors |-> <<>>]
CatchOutcome(p, e) ==
  [kind |-> "caught", resource |-> p, rowcount |-> 0, errors |-> <<e>>]

RunInputs ==
  {s \in UNION {[1..n -> PathUniverse] : n \in 0..MaxPaths} :
     \A a, b \in DOMAIN s : a # b => s[a] # s[b]}

\* ------------------------------------------------------------------------
\* runConcurrentSyncs: actions
\* ------------------------------------------------------------------------
\* const ordered = sortDependencies(paths); const results = []; i = 0
RunEnter ==
  /\ rn_pc = "entry"
  /\ rn_ordered' = sortDependencies(rn_paths)
  /\ rn_results' = <<>>
  /\ rn_i' = 0
  /\ rn_pc' = "loop"
  /\ UNCHANGED <<rn_paths, rn_batchSize, rn_st, rn_out, rn_starts, rn_waves,
                 rn_returned,
                 notRunVars>>

\* loop test holds: slice.map(p => syncResource(client, p).catch(...)) calls
\* syncResource for every path of the slice, then awaits Promise.all
WaveStart ==
  /\ rn_pc = "loop"
  /\ rn_i < Len(rn_ordered)
  /\ LET slice == SlicePositions(rn_i, rn_batchSize, Len(rn_ordered)) IN
       /\ rn_st' = [k \in DOMAIN rn_st |-> IF k \in slice THEN "running" ELSE rn_st[k]]
       /\ rn_starts' = [k \in DOMAIN rn_starts |->
                          IF k \in slice THEN rn_starts[k] + 1 ELSE rn_starts[k]]
       /\ rn_waves' = Append(rn_waves, [k \in 1..Cardinality(slice) |-> rn_ordered[rn_i + k]])
  /\ rn_pc' = "awaitAll"
  /\ UNCHANGED <<rn_paths, rn_batchSize, rn_ordered, rn_i, rn_out, rn_results,
                 rn_returned,
                 notRunVars>>

\* one synchronization completes and resolves with its outcome
SyncResolve ==
  \E k \in DOMAIN rn_st, n \in RowCounts :
    /\ rn_st[k] = "running"
    /\ rn_st' = [rn_st EXCEPT ![k] = "settled"]
    /\ rn_out' = [rn_out EXCEPT ![k] =
                    SyncOutcome(DeriveResource(rn_ordered[k]), n)]
    /\ UNCHANGED <<rn_pc, rn_paths, rn_batchSize, rn_ordered, rn_i, rn_starts,
                   rn_waves, rn_results, rn_returned,
                   notRunVars>>

\* one synchronization of a parameterized endpoint finds its parent relation
\* missing and resolves with the zero-row outcome naming it
SyncSkip ==
  \E k \in DOMAIN rn_st :
    /\ rn_st[k] = "running"
    /\ HasParam(rn_ordered[k])
    /\ rn_st' = [rn_st EXCEPT ![k] = "settled"]
    /\ rn_out' = [rn_out EXCEPT ![k] =
                    SkipOutcome(DeriveResource(rn_ordered[k]),
                                ParentTable(ParamName(rn_ordered[k])))]
    /\ UNCHANGED <<rn_pc, rn_paths, rn_batchSize, rn_ordered, rn_i, rn_starts,
                   rn_waves, rn_results, rn_returned,
                   notRunVars>>

\* one synchronization rejects (a query, the fetch or the persistence step
\* throws); its catch handler turns the rejection into an outcome
SyncRejectCaught ==
  \E k \in DOMAIN rn_st, e \in ErrorMessages :
    /\ rn_st[k] = "running"
    /\ rn_st' = [rn_st EXCEPT ![k] = "settled"]
    /\ rn_out' = [rn_out EXCEPT ![k] = CatchOutcome(rn_ordered[k], e)]
    /\ UNCHANGED <<rn_pc, rn_paths, rn_batchSize, rn_ordered, rn_i, rn_starts,
                   rn_waves, rn_results, rn_returned,
                   notRunVars>>

\* Promise.all resolves; results.push(...batchResults); the pause timer starts
WaveJoin ==
  /\ rn_pc = "awaitAll"
  /\ LET slice == SlicePositions(rn_i, rn_batchSize, Len(rn_ordered)) IN
       /\ WaveResolved(rn_st, slice)
       /\ rn_results' = rn_results \o
            [k \in 1..Cardinality(slice) |-> rn_out[rn_i + k]]
  /\ rn_pc' = "pause"
  /\ UNCHANGED <<rn_paths, rn_batchSize, rn_ordered, rn_i, rn_st, rn_out,
                 rn_starts, rn_waves, rn_returned,
                 notRunVars>>

\* the 1000 ms pause ends; i += batchSize
PauseDone ==
  /\ rn_pc = "pause"
  /\ rn_i' = rn_i + rn_batchSize
  /\ rn_pc' = "loop"
  /\ UNCHANGED <<rn_paths, rn_batchSize, rn_ordered, rn_st, rn_out, rn_starts,
                 rn_waves, rn_results, rn_returned,
                 notRunVars>>

\* loop test fails: return results
RunReturn ==
  /\ rn_pc = "loop"
  /\ ~(rn_i < Len(rn_ordered))
  /\ rn_returned' = rn_results
  /\ rn_pc' = "returned"
  /\ UNCHANGED <<rn_paths, rn_batchSize, rn_ordered, rn_i, rn_st, rn_out,
                 rn_starts, rn_waves, rn_results,
                 notRunVars>>

NextRun ==
  \/ RunEnter
  \/ WaveStart
  \/ SyncResolve
  \/ SyncSkip
  \/ SyncRejectCaught
  \/ WaveJoin
  \/ PauseDone
  \/ RunReturn

\* ------------------------------------------------------------------------
\* POST /call: helpers
\* ------------------------------------------------------------------------
Undefined == -2       \* stands for a field that is absent (undefined or null)

TakeCap == 500
TakeDefault == 200
MaxPagesCap == 100
MaxPagesDefault == 10
MaxRowsCap == 100000
MaxRowsDefault == 2000

SHARED_SECRET == "good"
Secrets == {"", "good", "bad"}    \* "" : header or field not sent

ALLOWED_PREFIXES == {"/api/", "/swagger/v1/swagger.json"}

CallPaths ==
  {"", "/api/items/list", "/api/items/list/v2", "/api/items/42",
   "/internal/metrics"}

Max(a, b) == IF a > b THEN a ELSE b

\* a ?? b
Coalesce(a, b) == IF a = Undefined THEN b ELSE a

\* Math.max(1, Math.min(x, cap))
ClampNoFloor(x, cap) == Min(x, cap)
Clamp(x, cap) == Max(1, Min(x, cap))

\* !path || !ALLOWED_PREFIXES.some(p => path.startsWith(p))
PathRejected(path) ==
  path = "" \/ ~(\E pre \in ALLOWED_PREFIXES : StartsWith(path, pre))

\* /\/list(?:$|\?)/.test(path)
IsListPath(path) ==
  \E i \in 1..Len(path) :
    /\ i + 4 <= Len(path)
    /\ SubSeq(path, i, i + 4) = "/list"
    /\ (i + 4 = Len(path) \/ SubSeq(path, i + 5, i + 5) = "?")

\* status < 200 || status >= 300 is the abort test; this is its negation
IsSuccessStatusAlways(status) == TRUE
IsSuccessStatus(status) == ~(status < 200 \/ status >= 300)

\* data.length < take : the page is the last one
IsLastPageNever(len, take) == len < 0
IsLastPage(len, take) == len < take

\* all.length
RECURSIVE AllLength(_)
AllLength(all) ==
  IF all = <<>> THEN 0 ELSE all[1].n + AllLength(Tail(all))

\* loop test  page < maxPages && all.length < maxRows
PageLoopContinues(page, maxPages, all, maxRows) ==
  page < maxPages /\ AllLength(all) < maxRows

AutoPageInputs ==
  [take      : {Undefined, TakeCap + 100} \cup 0..MaxTake,
   qTake     : {Undefined, 2},
   maxPages  : {Undefined, MaxPagesCap + 100} \cup 0..MaxPagesIn,
   maxRows   : {Undefined, MaxRowsCap + 100000} \cup 0..MaxRowsIn,
   startSkip : {Undefined, 7},
   qSkip     : {Undefined, 3}]

NoAutoPage == [take |-> Undefined, qTake |-> Undefined, maxPages |-> Undefined,
               maxRows |-> Undefined, startSkip |-> Undefined, qSkip |-> Undefined]

NoResponse == [status |-> 0, kind |-> "none"]

UpstreamStatuses == {200, 204, 401, 403, 404, 429, 500}

\* lengths of the list an upstream answer may carry for a requested size
PageLengths(take) ==
  {n \in 0..take : n <= MaxTake \/ n >= take - 1}

\* shapes of a parsed upstream body: a bare array, an object with an items
\* array, anything else (an object without items, or {raw: text})
BodyShapes == {"array", "items", "other"}

\* ------------------------------------------------------------------------
\* POST /call: actions
\* ------------------------------------------------------------------------
\* const providedSecret = headerSecret || secret ("" stands for a header or
\* body field that is absent or empty)
ProvidedSecretBodyFirst(headerSecret, secret) ==
  IF secret # "" THEN secret ELSE headerSecret
ProvidedSecret(headerSecret, secret) ==
  IF headerSecret # "" THEN headerSecret ELSE secret

\* the handler up to its first await: secret check, allowlist, the choice
\* between a single request and auto-pagination, and the pagination settings
CallEnterWith(headerSecret, secret, path, auto, ap) ==
  /\ cl_pc = "idle"
  /\ LET providedSecret == ProvidedSecret(headerSecret, secret) IN
       /\ cl_req' = [headerSecret |-> headerSecret, secret |-> secret,
                      path |-> path, auto |-> auto, ap |-> ap]
       /\ IF providedSecret # SHARED_SECRET
          THEN /\ cl_resp' = [status |-> 401, kind |-> "invalid_proxy_secret"]
               /\ cl_pc' = "done"
               /\ UNCHANGED <<cl_take, cl_maxPages, cl_maxRows, cl_skip>>
          ELSE IF PathRejected(path)
          THEN /\ cl_resp' = [status |-> 400, kind |-> "path_not_allowed"]
               /\ cl_pc' = "done"
               /\ UNCHANGED <<cl_take, cl_maxPages, cl_maxRows, cl_skip>>
          ELSE IF ~IsListPath(path) \/ ~auto
          THEN /\ cl_pc' = "single"
               /\ UNCHANGED <<cl_resp, cl_take, cl_maxPages, cl_maxRows, cl_skip>>
          ELSE /\ cl_take' = Clamp(Coalesce(ap.take, Coalesce(ap.qTake, TakeDefault)), TakeCap)
               /\ cl_maxPages' = Clamp(Coalesce(ap.maxPages, MaxPagesDefault), MaxPagesCap)
               /\ cl_maxRows' = Clamp(Coalesce(ap.maxRows, MaxRowsDefault), MaxRowsCap)
               /\ cl_skip' = Coalesce(ap.startSkip, Coalesce(ap.qSkip, 0))
               \* page = 0 and all = [] : the loop test holds (maxPages, maxRows >= 1)
               /\ cl_pc' = "paging"
               /\ UNCHANGED cl_resp
  /\ UNCHANGED <<cl_page, cl_all, cl_fetches>>

\* a request of any client
CallEnter ==
  /\ cl_pc = "idle"
  /\ \E headerSecret \in Secrets, secret \in Secrets, path \in CallPaths,
        auto \in BOOLEAN, ap \in AutoPageInputs :
       /\ auto = FALSE => ap = NoAutoPage
       /\ CallEnterWith(headerSecret, secret, path, auto, ap)
  /\ UNCHANGED notCallVars

\* the catch block of the handler for an error thrown by fetchPage
CallCatch(status, authError) ==
  IF authError
  THEN cl_resp' = [status |-> status, kind |-> "fulcrum_unauthorized",
                   fetch |-> Len(cl_fetches) + 1]
  ELSE cl_resp' = [status |-> 500, kind |-> "proxy_error"]

\* single request: one fetchPage, whose status and data are passed through
SingleFetch ==
  /\ cl_pc = "single"
  /\ \E status \in UpstreamStatuses, transport \in BOOLEAN :
       /\ cl_fetches' = Append(cl_fetches,
            [skip |-> Undefined, take |-> Undefined,
             status |-> IF transport THEN 0 ELSE status,
             list |-> FALSE, len |-> 0])
       /\ IF transport THEN CallCatch(0, FALSE)
          ELSE IF status \in {401, 403} THEN CallCatch(status, TRUE)
          ELSE cl_resp' = [status |-> status, kind |-> "data",
                           fetch |-> Len(cl_fetches) + 1]
  /\ cl_pc' = "done"
  /\ UNCHANGED <<cl_req, cl_take, cl_maxPages, cl_maxRows, cl_skip, cl_page, cl_all,
                 notCallVars>>

\* one iteration of the pagination loop: fetchPage with Skip/Take, then the
\* status test, the shape test, the last-page test, skip += take, the maxRows
\* test and the loop test of the next iteration
PageFetchWith(status, transport, shape, len) ==
  /\ cl_pc = "paging"
  /\ LET fetchNo == Len(cl_fetches) + 1
           entry == [skip |-> cl_skip, take |-> cl_take,
                     status |-> IF transport THEN 0 ELSE status,
                     list |-> (~transport /\ shape # "other"),
                     len |-> IF shape = "other" THEN 0 ELSE len]
           pushed == Append(cl_all, [fetch |-> fetchNo, n |-> len])
       IN
       /\ cl_fetches' = Append(cl_fetches, entry)
       /\ IF transport
          THEN /\ CallCatch(0, FALSE)
               /\ cl_pc' = "done"
               /\ UNCHANGED <<cl_all, cl_skip, cl_page>>
          ELSE IF status \in {401, 403}
          THEN /\ CallCatch(status, TRUE)
               /\ cl_pc' = "done"
               /\ UNCHANGED <<cl_all, cl_skip, cl_page>>
          ELSE IF ~IsSuccessStatus(status)
          THEN /\ cl_resp' = [status |-> status, kind |-> "data", fetch |-> fetchNo]
               /\ cl_pc' = "done"
               /\ UNCHANGED <<cl_all, cl_skip, cl_page>>
          ELSE IF shape = "other"
          THEN /\ cl_resp' = [status |-> 200, kind |-> "data", fetch |-> fetchNo]
               /\ cl_pc' = "done"
               /\ UNCHANGED <<cl_all, cl_skip, cl_page>>
          ELSE /\ cl_all' = pushed
               /\ IF IsLastPage(len, cl_take)
                  THEN /\ cl_resp' = [status |-> 200, kind |-> "rows", rows |-> pushed]
                       /\ cl_pc' = "done"
                       /\ UNCHANGED <<cl_skip, cl_page>>
                  ELSE /\ cl_skip' = cl_skip + cl_take
                       /\ IF AllLength(pushed) >= cl_maxRows
                          THEN /\ cl_resp' = [status |-> 200, kind |-> "rows", rows |-> pushed]
                               /\ cl_pc' = "done"
                               /\ UNCHANGED cl_page
                          ELSE /\ cl_page' = cl_page + 1
                               /\ IF PageLoopContinues(cl_page + 1, cl_maxPages, pushed, cl_maxRows)
                                  THEN /\ cl_pc' = "paging"
                                       /\ UNCHANGED cl_resp
                                  ELSE /\ cl_resp' = [status |-> 200, kind |-> "rows",
                                                      rows |-> pushed]
                                       /\ cl_pc' = "done"
  /\ UNCHANGED <<cl_req, cl_take, cl_maxPages, cl_maxRows>>

\* an iteration against an upstream that may answer anything
PageFetch ==
  /\ cl_pc = "paging"
  /\ \E status \in UpstreamStatuses, transport \in BOOLEAN,
        shape \in BodyShapes, len \in PageLengths(cl_take) :
       /\ shape = "other" => len = 0
       /\ transport => (status = 200 /\ shape = "other")
       \* an empty body (204) is read as "[]"
       /\ status = 204 => (shape = "array" /\ len = 0)
       /\ status \notin 200..299 => len = 0
       /\ PageFetchWith(status, transport, shape, len)
  /\ UNCHANGED notCallVars

NextCall ==
  \/ CallEnter
  \/ SingleFetch
  \/ PageFetch

\* ------------------------------------------------------------------------
\* the relational store, saveBatch, syncResource: helpers
\* ------------------------------------------------------------------------
SaveBatchSize == 1000      \* const batch = 1000
FlushThreshold == 50000    \* if (batchData.length > 50000)
StreamBatchSize == 10000   \* streamParentIds(client, parentTable, 10000)
SinceDefault == 0          \* stands for "1900-01-01": before every clock value

SyncPaths ==
  {"/api/items/list", "/api/item-boms/list", "/api/items/{itemId}/routing",
   "/api/items/{\\ww}/routing"}

\* relations a parent lookup of SyncPaths can name
ParentNames == {"items", "\\wws"}

TableNames == {DeriveResource(p) : p \in SyncPaths} \cup ParentNames

\* a payload is represented by the value of its "id" key, a one-digit number;
\* 0 is a payload without an "id" key
RecordIds == 1..MaxRecords

\* payload->>'id': the identifier as text
IdText(n) == Char(DigitChars, n + 1)

\* lists of distinct payloads in the order the proxy is asked to deliver them
\* (sortField "CreatedUtc", sortDir "Ascending"): payload n was created
\* before payload n + 1
RecordLists ==
  {s \in UNION {[1..n -> RecordIds] : n \in 0..MaxRecords} :
     \A a, b \in DOMAIN s : a < b => s[a] < s[b]}

\* values handed around as `data`
NoData == [kind |-> "none", rows |-> <<>>]
ArrayData(rows) == [kind |-> "array", rows |-> rows]
ObjectData == [kind |-> "object", rows |-> <<>>]
UndefinedData == [kind |-> "undefined", rows |-> <<>>]
ThrowData == [kind |-> "throw", rows |-> <<>>]

\* what `await fetchJSON(...)` produces: the parsed body (an array, or an
\* object of another shape), undefined (fetchWithRetry falls out of its loop),
\* or a thrown error
FetchOutcomes ==
  {ArrayData(r) : r \in RecordLists} \cup {ObjectData, UndefinedData, ThrowData}

FetchErrorMessage == "500: upstream failure"
TypeErrorMessage == "Cannot read properties of undefined (reading 'length')"
InsertErrorMessage == "insert failed"
NoRelationMessage == "relation does not exist"

\* a mirror_log row; NOW() and new Date() read the same clock
LogRow(resource, rowcount, now) ==
  [resource |-> resource, rowcount |-> rowcount, synced_at |-> now,
   last_date |-> now, errors |-> <<>>]

\* INSERT INTO mirror_log(...) VALUES (...): the table gains one row, the rows
\* it held stay as they are
AppendLogReplacing(log, row) == <<row>>
AppendLog(log, row) == Append(log, row)

\* WHERE resource=$1
LogRowsOf(log, resource) == {k \in 1..Len(log) : log[k].resource = resource}

\* ORDER BY synced_at DESC LIMIT 1
LatestRowAscending(log, resource) ==
  CHOOSE k \in LogRowsOf(log, resource) :
    \A m \in LogRowsOf(log, resource) : log[k].synced_at <= log[m].synced_at
LatestRow(log, resource) ==
  CHOOSE k \in LogRowsOf(log, resource) :
    \A m \in LogRowsOf(log, resource) : log[m].synced_at <= log[k].synced_at

\* last.rows[0]?.last_date || "1900-01-01"
SinceDate(log, resource) ==
  IF LogRowsOf(log, resource) = {} THEN SinceDefault
  ELSE log[LatestRow(log, resource)].last_date

\* ORDER BY id: ascending by the text of the identifier, rows without one last
IdKey(n) == IF n = 0 THEN 10 ELSE n

\* position of row i in the answer: rows with a smaller key come first, rows
\* with the same key keep their order
IdRank(rows, i) ==
  Cardinality({j \in DOMAIN rows :
                 \/ IdKey(rows[j]) < IdKey(rows[i])
                 \/ IdKey(rows[j]) = IdKey(rows[i]) /\ j <= i})

OrderById(rows) ==
  [k \in DOMAIN rows |->
     rows[CHOOSE i \in DOMAIN rows : IdRank(rows, i) = k]]

\* OFFSET $1 LIMIT $2
OffsetLimit(rows, offset, limit) ==
  SubSeq(rows, offset + 1, Min(offset + limit, Len(rows)))

\* res.rows.map(r => r.id).filter(Boolean)
RECURSIVE FilterBoolean(_)
FilterBoolean(ids) ==
  IF ids = <<>> THEN <<>>
  ELSE IF Head(ids) = 0 THEN FilterBoolean(Tail(ids))
       ELSE <<Head(ids)>> \o FilterBoolean(Tail(ids))

\* rows an earlier run can have left in a relation
ParentRowChoices == {<<>>, <<2, 1>>, <<1, 0>>}
ResourceRowChoices == {<<>>, <<1>>}

\* resources earlier runs can have logged
LogResources == {"items_list", "items_routing"}

\* the mirror_log contents earlier runs can have left: row k was written at
\* clock value k
InitLogs ==
  {[k \in 1..n |-> LogRow(f[k], 0, k)] :
     n \in 0..MaxLogInit, f \in [1..MaxLogInit -> LogResources]}

\* CREATE TABLE IF NOT EXISTS: never fails on a relation that is present
CreateTableFailsIfPresent(present) == present
CreateTableFails(present) == FALSE

\* ADD COLUMN IF NOT EXISTS / CREATE INDEX IF NOT EXISTS: never fail on
\* columns and indexes that are present
AlterFails(cols) == FALSE

\* the columns and the index the closing statement of saveBatch creates
DerivedObjects(resource) == {"id", "createdutc", resource \o "_id_idx"}

\* the synchronous prefix of saveBatch(client, resource, data):
\* data.length throws on undefined; if (!data.length) return;
SaveCallDropping(resource, data) ==
  /\ sv_resource' = resource
  /\ sv_data' = [data EXCEPT !.rows = SubSeq(@, 1, Len(@) - 1)]
  /\ sv_i' = 0
  /\ sv_queue' = <<>>
  /\ sv_pc' = IF data.kind = "undefined" THEN "thrown"
              ELSE IF Len(data.rows) = 0 THEN "returned"
              ELSE "create"
SaveCall(resource, data) ==
  /\ sv_resource' = resource
  /\ sv_data' = data
  /\ sv_i' = 0
  /\ sv_queue' = <<>>
  /\ sv_pc' = IF data.kind = "undefined" THEN "thrown"
              ELSE IF Len(data.rows) = 0 THEN "returned"
              ELSE "create"

\* ------------------------------------------------------------------------
\* saveBatch: actions
\* ------------------------------------------------------------------------
\* CREATE TABLE IF NOT EXISTS ${resource} (payload JSONB)
SaveCreateTable ==
  /\ sv_pc = "create"
  /\ IF CreateTableFails(sv_resource \in db_exists)
     THEN /\ sv_pc' = "thrown"
          /\ UNCHANGED db_exists
     ELSE /\ sv_pc' = "batch"
          /\ db_exists' = db_exists \cup {sv_resource}
  /\ UNCHANGED <<db_rows, db_cols, db_log, db_meta, db_now, sv_resource,
                 sv_data, sv_i, sv_queue, syncVars, driverVars, notStoreVars>>

\* data.slice(i, i + batch)
SliceOne(rows, i, batch) == SubSeq(rows, i + 1, Min(i + 1, Len(rows)))
Slice(rows, i, batch) == SubSeq(rows, i + 1, Min(i + batch, Len(rows)))

\* the loop test; data.slice(i, i + batch) and one queued insert per row
SaveIssueBatch ==
  /\ sv_pc = "batch"
  /\ IF sv_i < Len(sv_data.rows)
     THEN /\ sv_queue' = Slice(sv_data.rows, sv_i, SaveBatchSize)
          /\ sv_pc' = "inserting"
     ELSE /\ sv_pc' = "alter"
          /\ UNCHANGED sv_queue
  /\ UNCHANGED <<dbVars, sv_resource, sv_data, sv_i, syncVars, driverVars,
                 notStoreVars>>

\* the client executes the oldest queued insert
SaveInsertDone ==
  /\ sv_queue # <<>>
  /\ db_rows' = [db_rows EXCEPT ![sv_resource] = Append(@, Head(sv_queue))]
  /\ sv_queue' = Tail(sv_queue)
  /\ UNCHANGED <<db_exists, db_cols, db_log, db_meta, db_now, sv_pc,
                 sv_resource, sv_data, sv_i, syncVars, driverVars,
                 notStoreVars>>

\* the oldest queued insert is rejected by the store: Promise.all rejects and
\* saveBatch rejects with it; the inserts queued behind it still execute
SaveInsertFail ==
  /\ sv_pc = "inserting"
  /\ sv_queue # <<>>
  /\ sv_queue' = Tail(sv_queue)
  /\ sv_pc' = "thrown"
  /\ UNCHANGED <<dbVars, sv_resource, sv_data, sv_i, syncVars, driverVars,
                 notStoreVars>>

\* Promise.all over the slice resolves; i += batch
SaveBatchJoin ==
  /\ sv_pc = "inserting"
  /\ sv_queue = <<>>
  /\ sv_i' = sv_i + SaveBatchSize
  /\ sv_pc' = "batch"
  /\ UNCHANGED <<dbVars, sv_resource, sv_data, sv_queue, syncVars, driverVars,
                 notStoreVars>>

\* ALTER TABLE ... ADD COLUMN IF NOT EXISTS ...; CREATE INDEX IF NOT EXISTS
SaveAlter ==
  /\ sv_pc = "alter"
  /\ IF AlterFails(db_cols[sv_resource])
     THEN /\ sv_pc' = "thrown"
          /\ UNCHANGED db_cols
     ELSE /\ sv_pc' = "returned"
          /\ db_cols' = [db_cols EXCEPT ![sv_resource] =
                           @ \cup DerivedObjects(sv_resource)]
  /\ UNCHANGED <<db_exists, db_rows, db_log, db_meta, db_now, sv_resource,
                 sv_data, sv_i, sv_queue, syncVars, driverVars, notStoreVars>>

\* ------------------------------------------------------------------------
\* two successive saveBatch calls for one resource (the flush of a full
\* buffer followed by the closing save of the fan-out branch)
\* ------------------------------------------------------------------------
DriverResource == "items_routing"

DriverCallFirst ==
  /\ dv_pc = "first"
  /\ sv_pc = "idle"
  /\ SaveCall(DriverResource, ArrayData(dv_first))
  /\ dv_pc' = "firstRunning"
  /\ UNCHANGED <<dbVars, syncVars, dv_first, dv_second, dv_rows0,
                 notStoreVars>>

DriverCallSecond ==
  /\ dv_pc = "firstRunning"
  /\ sv_pc = "returned"
  /\ SaveCall(DriverResource, ArrayData(dv_second))
  /\ dv_pc' = "secondRunning"
  /\ UNCHANGED <<dbVars, syncVars, dv_first, dv_second, dv_rows0,
                 notStoreVars>>

DriverEnd ==
  /\ dv_pc = "secondRunning"
  /\ sv_pc = "returned"
  /\ dv_pc' = "end"
  /\ UNCHANGED <<dbVars, saveVars, syncVars, dv_first, dv_second, dv_rows0,
                 notStoreVars>>

NextSave ==
  \/ DriverCallFirst
  \/ DriverCallSecond
  \/ DriverEnd
  \/ SaveCreateTable
  \/ SaveIssueBatch
  \/ SaveInsertDone
  \/ SaveBatchJoin
  \/ SaveAlter

\* ------------------------------------------------------------------------
\* syncResource(client, path).catch(...): actions
\* ------------------------------------------------------------------------
\* derive the resource name, read the watermark, test the path for a
\* placeholder
SyncEnter ==
  /\ sy_pc = "entry"
  /\ sy_resource' = DeriveResource(sy_path)
  /\ sy_since' = SinceDate(db_log, DeriveResource(sy_path))
  /\ sy_total' = 0
  /\ IF HasParam(sy_path)
     THEN /\ sy_parent' = ParentTable(ParamName(sy_path))
          /\ sy_pc' = "checkParent"
     ELSE /\ sy_parent' = ""
          /\ sy_pc' = "fetchDirect"
  /\ UNCHANGED <<dbVars, saveVars, sy_path, sy_offset, sy_ids, sy_batchData,
                 sy_data, sy_fetches, sy_log0, sy_err, sy_out, driverVars,
                 notStoreVars>>

\* the parent relation does not exist: return the zero-row outcome
SyncParentMissing ==
  /\ sy_pc = "checkParent"
  /\ sy_parent \notin db_exists
  /\ sy_out' = SkipOutcome(sy_resource, sy_parent)
  /\ sy_pc' = "done"
  /\ UNCHANGED <<dbVars, saveVars, sy_path, sy_resource, sy_since, sy_total,
                 sy_parent, sy_offset, sy_ids, sy_batchData, sy_data,
                 sy_fetches, sy_log0, sy_err, driverVars, notStoreVars>>

\* the parent relation exists: let batchData = []; start streaming
SyncParentPresent ==
  /\ sy_pc = "checkParent"
  /\ sy_parent \in db_exists
  /\ sy_batchData' = <<>>
  /\ sy_offset' = 0
  /\ sy_pc' = "stream"
  /\ UNCHANGED <<dbVars, saveVars, sy_path, sy_resource, sy_since, sy_total,
                 sy_parent, sy_ids, sy_data, sy_fetches, sy_log0, sy_err,
                 sy_out, driverVars, notStoreVars>>

\* streamParentIds reads the next batch of identifiers; an empty batch ends
\* the stream and the closing saveBatch(client, resource, batchData) is called
SyncStreamBatch ==
  /\ sy_pc = "stream"
  /\ LET page == OffsetLimit(OrderById(db_rows[sy_parent]), sy_offset,
                             StreamBatchSize) IN
       IF page = <<>>
       THEN /\ sy_pc' = "finalSave"
            /\ SaveCall(sy_resource, ArrayData(sy_batchData))
            /\ UNCHANGED <<sy_ids, sy_offset>>
       ELSE /\ sy_ids' = FilterBoolean(page)
            /\ sy_offset' = sy_offset + Len(page)
            /\ sy_pc' = IF FilterBoolean(page) = <<>> THEN "stream"
                        ELSE "fetchId"
            /\ UNCHANGED saveVars
  /\ UNCHANGED <<dbVars, sy_path, sy_resource, sy_since, sy_total, sy_parent,
                 sy_batchData, sy_data, sy_fetches, sy_log0, sy_err, sy_out,
                 driverVars, notStoreVars>>

\* if (batchData.length > 50000)
BufferFullNever(buf) == FALSE
BufferFull(buf) == Len(buf) > FlushThreshold

\* try { ... } catch (err) { console.warn(...) }: whatever the fetch of one
\* identifier produced, the loop goes on with the next identifier
FanOutNextRethrow(r, rest) ==
  IF r.kind = "throw" THEN "thrown"
  ELSE IF rest = <<>> THEN "stream" ELSE "fetchId"
FanOutNext(r, rest) == IF rest = <<>> THEN "stream" ELSE "fetchId"

\* one identifier of the batch: fetch the substituted path, collect a
\* non-empty array, only warn on a failure, flush a full buffer
SyncFetchIdWith(r) ==
  /\ sy_pc = "fetchId"
  /\ sy_ids # <<>>
  /\   LET fullPath == ReplaceParam(sy_path, ParamName(sy_path),
                                    IdText(Head(sy_ids)))
           collected == IF r.kind = "array" THEN sy_batchData \o r.rows
                        ELSE sy_batchData
       IN
         /\ sy_fetches' = Append(sy_fetches,
                                 [path |-> fullPath, since |-> sy_since,
                                  got |-> r])
         /\ sy_batchData' = collected
         /\ sy_total' = IF r.kind = "array" THEN sy_total + Len(r.rows)
                        ELSE sy_total
         /\ sy_ids' = Tail(sy_ids)
         /\ IF BufferFull(collected)
            THEN /\ sy_pc' = "flush"
                 /\ SaveCall(sy_resource, ArrayData(collected))
            ELSE /\ sy_pc' = FanOutNext(r, Tail(sy_ids))
                 /\ UNCHANGED saveVars
  /\ UNCHANGED <<dbVars, sy_path, sy_resource, sy_since, sy_parent, sy_offset,
                 sy_data, sy_log0, sy_err, sy_out, driverVars, notStoreVars>>

\* the fetch of one identifier with any outcome
SyncFetchId ==
  /\ sy_pc = "fetchId"
  /\ \E r \in FetchOutcomes : SyncFetchIdWith(r)

\* the direct branch: const data = await fetchJSON(path, sinceDate), then
\* saveBatch(client, resource, data) is called
SyncFetchDirect ==
  /\ sy_pc = "fetchDirect"
  /\ \E r \in FetchOutcomes :
       /\ sy_fetches' = Append(sy_fetches,
                               [path |-> sy_path, since |-> sy_since,
                                got |-> r])
       /\ IF r.kind = "throw"
          THEN /\ sy_err' = FetchErrorMessage
               /\ sy_pc' = "thrown"
               /\ UNCHANGED <<sy_data, saveVars>>
          ELSE /\ sy_data' = r
               /\ sy_pc' = "saveDirect"
               /\ SaveCall(sy_resource, r)
               /\ UNCHANGED sy_err
  /\ UNCHANGED <<dbVars, sy_path, sy_resource, sy_since, sy_total, sy_parent,
                 sy_offset, sy_ids, sy_batchData, sy_log0, sy_out, driverVars,
                 notStoreVars>>

\* saveBatch returned to syncResource
SyncSaveReturn ==
  /\ sy_pc \in {"flush", "finalSave", "saveDirect"}
  /\ sv_pc = "returned"
  /\ sv_pc' = "idle"
  /\ sy_batchData' = IF sy_pc = "flush" THEN <<>> ELSE sy_batchData
  /\ sy_total' = IF sy_pc = "saveDirect"
                 THEN (IF sy_data.kind = "array" THEN Len(sy_data.rows)
                       ELSE Undefined)
                 ELSE sy_total
  /\ sy_pc' = IF sy_pc = "flush"
              THEN (IF sy_ids = <<>> THEN "stream" ELSE "fetchId")
              ELSE "writeLog"
  /\ UNCHANGED <<dbVars, sv_resource, sv_data, sv_i, sv_queue, sy_path,
                 sy_resource, sy_since, sy_parent, sy_offset, sy_ids, sy_data,
                 sy_fetches, sy_log0, sy_err, sy_out, driverVars,
                 notStoreVars>>

\* saveBatch rejected: syncResource rejects with the same error
SyncSaveThrows ==
  /\ sy_pc \in {"flush", "finalSave", "saveDirect"}
  /\ sv_pc = "thrown"
  /\ sv_pc' = "idle"
  /\ sy_err' = IF sv_data.kind = "undefined" THEN TypeErrorMessage
               ELSE InsertErrorMessage
  /\ sy_pc' = "thrown"
  /\ UNCHANGED <<dbVars, sv_resource, sv_data, sv_i, sv_queue, sy_path,
                 sy_resource, sy_since, sy_total, sy_parent, sy_offset,
                 sy_ids, sy_batchData, sy_data, sy_fetches, sy_log0, sy_out,
                 driverVars, notStoreVars>>

\* INSERT INTO mirror_log(...) VALUES ($1,$2,NOW(),$3,$4,'[]')
SyncWriteLog ==
  /\ sy_pc = "writeLog"
  /\ db_log' = AppendLog(db_log, LogRow(sy_resource, sy_total, db_now))
  /\ db_now' = db_now + 1
  /\ sy_pc' = "analyze"
  /\ UNCHANGED <<db_exists, db_rows, db_cols, db_meta, saveVars, sy_path,
                 sy_resource, sy_since, sy_total, sy_parent, sy_offset,
                 sy_ids, sy_batchData, sy_data, sy_fetches, sy_log0, sy_err,
                 sy_out, driverVars, notStoreVars>>

\* analyzeSchema(client, resource) samples the relation and records its keys;
\* then return { resource, rowcount: total, errors: [] }.  The sample query
\* fails when the relation was never created.
SyncAnalyze ==
  /\ sy_pc = "analyze"
  /\ IF sy_resource \in db_exists
     THEN /\ db_meta' = db_meta \cup {sy_resource}
          /\ sy_out' = SyncOutcome(sy_resource, sy_total)
          /\ sy_pc' = "done"
          /\ UNCHANGED sy_err
     ELSE /\ sy_err' = NoRelationMessage
          /\ sy_pc' = "thrown"
          /\ UNCHANGED <<db_meta, sy_out>>
  /\ UNCHANGED <<db_exists, db_rows, db_cols, db_log, db_now, saveVars,
                 sy_path, sy_resource, sy_since, sy_total, sy_parent,
                 sy_offset, sy_ids, sy_batchData, sy_data, sy_fetches,
                 sy_log0, driverVars, notStoreVars>>

\* .catch(e => ({ resource: p, rowcount: 0, errors: [e.message] }))
SyncCatch ==
  /\ sy_pc = "thrown"
  /\ sy_out' = CatchOutcome(sy_path, sy_err)
  /\ sy_pc' = "done"
  /\ UNCHANGED <<dbVars, saveVars, sy_path, sy_resource, sy_since, sy_total,
                 sy_parent, sy_offset, sy_ids, sy_batchData, sy_data,
                 sy_fetches, sy_log0, sy_err, driverVars, notStoreVars>>

\* ------------------------------------------------------------------------
\* successive runs of the direct branch against one upstream list endpoint
\* ------------------------------------------------------------------------
\* what the upstream list answers to body: { DateFrom: since }, sorted by
\* CreatedUtc ascending: the records created at or after since
UpstreamSince(created, since) ==
  SelectSeq([k \in 1..Len(created) |-> k], LAMBDA k : created[k] >= since)

\* a record is created upstream; the upstream and the mirror read one clock
UpstreamCreate ==
  /\ Len(up_created) < MaxRecords
  /\ up_created' = Append(up_created, db_now)
  /\ db_now' = db_now + 1
  /\ UNCHANGED <<db_exists, db_rows, db_cols, db_log, db_meta, saveVars,
                 syncVars, driverVars, fetchVars, runVars, callVars,
                 schemaVars, mainVars, streamVars, analyzeVars>>

\* const data = await fetchJSON(path, sinceDate) answered with the records
\* the upstream holds at that moment, then saveBatch(client, resource, data)
\* is called
SyncFetchUpstream ==
  /\ sy_pc = "fetchDirect"
  /\ LET r == ArrayData(UpstreamSince(up_created, sy_since)) IN
       /\ sy_fetches' = Append(sy_fetches,
                               [path |-> sy_path, since |-> sy_since,
                                got |-> r, at |-> db_now])
       /\ sy_data' = r
       /\ sy_pc' = "saveDirect"
       /\ SaveCall(sy_resource, r)
  /\ UNCHANGED <<dbVars, sy_path, sy_resource, sy_since, sy_total, sy_parent,
                 sy_offset, sy_ids, sy_batchData, sy_log0, sy_err, sy_out,
                 driverVars, notStoreVars>>

\* the next run of the job calls syncResource for the same path
SyncNextRun ==
  /\ sy_pc = "done"
  /\ Len(db_log) < MaxRuns
  /\ sy_pc' = "entry"
  /\ sy_log0' = Len(db_log)
  /\ sy_fetches' = <<>>
  /\ sy_data' = NoData
  /\ sy_err' = ""
  /\ sy_out' = NoOutcome
  /\ UNCHANGED <<dbVars, saveVars, sy_path, sy_resource, sy_since, sy_total,
                 sy_parent, sy_offset, sy_ids, sy_batchData, driverVars,
                 notStoreVars>>

NextMark ==
  \/ UpstreamCreate
  \/ SyncEnter
  \/ SyncFetchUpstream
  \/ SyncSaveReturn
  \/ SyncWriteLog
  \/ SyncAnalyze
  \/ SyncCatch
  \/ SyncNextRun
  \/ SaveCreateTable
  \/ SaveIssueBatch
  \/ SaveInsertDone
  \/ SaveBatchJoin
  \/ SaveAlter

\* ------------------------------------------------------------------------
\* the direct branch fetching through POST /call of the proxy
\* ------------------------------------------------------------------------
\* autoPage: { take: 500, maxPages: 100, sortField, sortDir }
EngineAutoPage ==
  [take |-> 500, qTake |-> Undefined, maxPages |-> 100, maxRows |-> Undefined,
   startSkip |-> Undefined, qSkip |-> Undefined]

\* numbers of records the upstream list can hold
UpstreamSizes == {0, 499, 1000, 1500, 2500}

\* the upstream answer to Skip/Take over the records at or after since
UpstreamPage(created, since, skip, take) ==
  OffsetLimit(UpstreamSince(created, since), skip, take)

\* the array the proxy sends: the pages it pushed, in order
RECURSIVE ProxyRows(_, _, _, _)
ProxyRows(all, fetches, created, since) ==
  IF all = <<>> THEN <<>>
  ELSE UpstreamPage(created, since, fetches[Head(all).fetch].skip,
                    fetches[Head(all).fetch].take)
         \o ProxyRows(Tail(all), fetches, created, since)

\* fetchJSON(path, sinceDate): the request reaches the proxy; both sides read
\* the secret from the same environment variable
SyncCallProxy ==
  /\ sy_pc = "fetchDirect"
  /\ CallEnterWith(SHARED_SECRET, "", sy_path, TRUE, EngineAutoPage)
  /\ sy_pc' = "awaitProxy"
  /\ UNCHANGED <<dbVars, saveVars, sy_path, sy_resource, sy_since, sy_total,
                 sy_parent, sy_offset, sy_ids, sy_batchData, sy_data,
                 sy_fetches, sy_log0, sy_err, sy_out, driverVars, fetchVars,
                 runVars, schemaVars, mainVars, upstreamVars,
   streamVars, analyzeVars>>

\* one iteration of the proxy's loop answered by the upstream list, which
\* receives the body { DateFrom: sinceDate } unchanged
PageFetchUpstream ==
  /\ cl_pc = "paging"
  /\ PageFetchWith(200, FALSE, "array",
                   Len(UpstreamPage(up_created, sy_since, cl_skip, cl_take)))
  /\ UNCHANGED notCallVars

\* the proxy's 200 answer is the value of fetchJSON; then
\* saveBatch(client, resource, data) is called
SyncProxyAnswer ==
  /\ sy_pc = "awaitProxy"
  /\ cl_pc = "done"
  /\ cl_resp.kind = "rows"
  /\ LET r == ArrayData(ProxyRows(cl_resp.rows, cl_fetches, up_created,
                                  sy_since)) IN
       /\ sy_fetches' = Append(sy_fetches,
                               [path |-> sy_path, since |-> sy_since,
                                got |-> r])
       /\ sy_data' = r
       /\ sy_pc' = "saveDirect"
       /\ SaveCall(sy_resource, r)
  /\ UNCHANGED <<dbVars, sy_path, sy_resource, sy_since, sy_total, sy_parent,
                 sy_offset, sy_ids, sy_batchData, sy_log0, sy_err, sy_out,
                 driverVars, notStoreVars>>

NextMirror ==
  \/ SyncEnter
  \/ SyncCallProxy
  \/ PageFetchUpstream
  \/ SyncProxyAnswer
  \/ SyncSaveReturn
  \/ SyncWriteLog
  \/ SyncAnalyze
  \/ SyncCatch
  \/ SaveCreateTable
  \/ SaveIssueBatch
  \/ SaveInsertDone
  \/ SaveBatchJoin
  \/ SaveAlter

\* ------------------------------------------------------------------------
\* the fan-out branch with answers large enough to fill the buffer
\* ------------------------------------------------------------------------
\* numbers of records one per-identifier fetch can deliver
BulkSizes == {0, 25000, 50000, 50001}

\* the k records of the f-th fetch, all distinct from those of other fetches
BulkRows(f, k) == [j \in 1..k |-> f * 100000 + j]

\* the fetch of one identifier answered with an array of one of BulkSizes
SyncFetchBulk ==
  /\ sy_pc = "fetchId"
  /\ \E k \in BulkSizes :
       SyncFetchIdWith(ArrayData(BulkRows(Len(sy_fetches) + 1, k)))

\* the client executes the inserts of the slice, in the order they were
\* queued
SaveInsertAll ==
  /\ sv_pc = "inserting"
  /\ sv_queue # <<>>
  /\ db_rows' = [db_rows EXCEPT ![sv_resource] = @ \o sv_queue]
  /\ sv_queue' = <<>>
  /\ UNCHANGED <<db_exists, db_cols, db_log, db_meta, db_now, sv_pc,
                 sv_resource, sv_data, sv_i, syncVars, driverVars,
                 notStoreVars>>

NextFlush ==
  \/ SyncEnter
  \/ SyncParentPresent
  \/ SyncStreamBatch
  \/ SyncFetchBulk
  \/ SyncSaveReturn
  \/ SyncWriteLog
  \/ SyncAnalyze
  \/ SyncCatch
  \/ SaveCreateTable
  \/ SaveIssueBatch
  \/ SaveInsertAll
  \/ SaveBatchJoin
  \/ SaveAlter

NextSync ==
  \/ SyncEnter
  \/ SyncParentMissing
  \/ SyncParentPresent
  \/ SyncStreamBatch
  \/ SyncFetchId
  \/ SyncFetchDirect
  \/ SyncSaveReturn
  \/ SyncSaveThrows
  \/ SyncWriteLog
  \/ SyncAnalyze
  \/ SyncCatch
  \/ SaveCreateTable
  \/ SaveIssueBatch
  \/ SaveInsertDone
  \/ SaveInsertFail
  \/ SaveBatchJoin
  \/ SaveAlter

\* ------------------------------------------------------------------------
\* GET /schema: helpers
\* ------------------------------------------------------------------------
SCHEMA_TTL_MS == 24 * 60 * 60 * 1000

\* the clock advances in steps of 12 hours
TickMs == 12 * 60 * 60 * 1000

NoCatalog == [kind |-> "null"]

\* swagger documents the upstream can serve: info.version ("" when absent)
\* and the keys of paths, each with one operation
Swaggers ==
  [version : {"", "1"},
   paths : {<<>>, <<"/api/items/list", "/api/items/{itemId}/routing">>}]

\* p.split("/").filter(Boolean)
RECURSIVE FilterEmpty(_)
FilterEmpty(segs) ==
  IF segs = <<>> THEN <<>>
  ELSE IF Head(segs) = "" THEN FilterEmpty(Tail(segs))
       ELSE <<Head(segs)>> \o FilterEmpty(Tail(segs))

\* seg[1] || "root"
ResourceOf(p) ==
  LET seg == FilterEmpty(SplitSlash(p, "")) IN
    IF Len(seg) >= 2 THEN seg[2] ELSE "root"

\* /\/list$/.test(p)
EndsWithList(p) == Len(p) >= 5 /\ SubSeq(p, Len(p) - 4, Len(p)) = "/list"

compileCatalog(sw) ==
  [kind |-> "catalog",
   version |-> IF sw.version = "" THEN "unknown" ELSE sw.version,
   resources |-> [k \in DOMAIN sw.paths |->
                    [resource |-> ResourceOf(sw.paths[k]),
                     path |-> sw.paths[k],
                     isList |-> EndsWithList(sw.paths[k])]]]

\* SCHEMA_CACHE && now - SCHEMA_CACHE_AT < SCHEMA_TTL_MS
CacheFreshAtExpiry(cache, cacheAt, now) ==
  cache # NoCatalog /\ now - cacheAt <= SCHEMA_TTL_MS

CacheFresh(cache, cacheAt, now) ==
  cache # NoCatalog /\ now - cacheAt < SCHEMA_TTL_MS

\* ------------------------------------------------------------------------
\* GET /schema: actions
\* ------------------------------------------------------------------------
\* a request arrives; the handler calls getCatalog(), which answers from the
\* cache or starts fetchSwagger()
SchemaRequest ==
  /\ sc_pc \in {"idle", "responded"}
  /\ CacheFresh(sc_cache, sc_cacheAt, sc_clock) \/ sc_fetches < MaxSwaggerFetches
  /\ \E headerSecret \in Secrets :
       /\ sc_cred' = headerSecret
       /\ sc_reqNow' = sc_clock
       /\ IF CacheFresh(sc_cache, sc_cacheAt, sc_clock)
          THEN /\ sc_resp' = [status |-> 200, body |-> sc_cache]
               /\ sc_pc' = "responded"
          ELSE /\ sc_resp' = NoResponse
               /\ sc_pc' = "fetching"
  /\ UNCHANGED <<sc_cache, sc_cacheAt, sc_clock, sc_fetches, notSchemaVars>>

\* fetchSwagger resolves: SCHEMA_CACHE = compileCatalog(sw);
\* SCHEMA_CACHE_AT = now; res.json(catalog)
SwaggerOk ==
  /\ sc_pc = "fetching"
  /\ \E sw \in Swaggers :
       /\ sc_cache' = compileCatalog(sw)
       /\ sc_resp' = [status |-> 200, body |-> compileCatalog(sw)]
  /\ sc_cacheAt' = sc_reqNow
  /\ sc_fetches' = sc_fetches + 1
  /\ sc_pc' = "responded"
  /\ UNCHANGED <<sc_clock, sc_reqNow, sc_cred, notSchemaVars>>

\* fetchSwagger throws (transport error or a status that is not ok): the
\* handler answers 500 and the cache keeps its value
SwaggerFails ==
  /\ sc_pc = "fetching"
  /\ sc_resp' = [status |-> 500, body |-> [kind |-> "error"]]
  /\ sc_fetches' = sc_fetches + 1
  /\ sc_pc' = "responded"
  /\ UNCHANGED <<sc_cache, sc_cacheAt, sc_clock, sc_reqNow, sc_cred, notSchemaVars>>

\* time passes
SchemaTick ==
  /\ sc_clock < MaxTicks * TickMs
  /\ sc_clock' = sc_clock + TickMs
  /\ UNCHANGED <<sc_pc, sc_cache, sc_cacheAt, sc_reqNow, sc_cred, sc_resp,
                 sc_fetches, notSchemaVars>>

NextSchema ==
  \/ SchemaRequest
  \/ SwaggerOk
  \/ SwaggerFails
  \/ SchemaTick

\* ------------------------------------------------------------------------
\* main: helpers
\* ------------------------------------------------------------------------
\* relations the statements of buildViews select from
ViewBases == {"jobs", "item_boms_data", "inventory"}

SystemTables == {"mirror_log", "mirror_meta"}

\* what `await fetchWithRetry(`${PROXY_BASE}/schema`, ...)` produces: a catalog
\* whose resources pass the path filter with the list allPaths, an object
\* without resources, undefined (fetchWithRetry falls out of its loop), or a
\* thrown error
\* a collection endpoint and its element endpoint: both pass main's path
\* filter (they contain "routing")
SiblingPaths ==
  <<"/api/items/{itemId}/routing", "/api/items/{itemId}/routing/{stepId}">>

SchemaAnswers ==
  {[kind |-> "catalog", allPaths |-> ps] : ps \in RunInputs \cup {SiblingPaths}} \cup
  {[kind |-> k, allPaths |-> <<>>] : k \in {"noResources", "undefined", "throw"}}

\* ------------------------------------------------------------------------
\* main: actions
\* ------------------------------------------------------------------------
\* const client = await pool.connect(), in front of the try block
MainConnect ==
  /\ mn_pc = "start"
  /\ \E ok \in BOOLEAN :
       IF ok THEN mn_pc' = "ensure" /\ UNCHANGED mn_failed
       ELSE mn_pc' = "rejected" /\ mn_failed' = TRUE
  /\ UNCHANGED <<mn_schema, mn_reported, mn_exit, notMainVars>>

\* await ensureSystemTables(client)
MainEnsureTables ==
  /\ mn_pc = "ensure"
  /\ \E ok \in BOOLEAN :
       IF ok
       THEN /\ db_exists' = db_exists \cup SystemTables
            /\ mn_pc' = "schema"
            /\ UNCHANGED mn_failed
       ELSE /\ mn_pc' = "finally"
            /\ mn_failed' = TRUE
            /\ UNCHANGED db_exists
  /\ UNCHANGED <<mn_schema, mn_reported, mn_exit, db_rows, db_cols, db_log,
                 db_meta, db_now, saveVars, syncVars, driverVars, schemaVars,
                 fetchVars, runVars, callVars,
                 upstreamVars, streamVars, analyzeVars>>

\* the schema request and the path list: a missing answer or a thrown error
\* ends the try block; otherwise runConcurrentSyncs is entered with the
\* filtered paths and a concurrency of 5
MainSchema ==
  /\ mn_pc = "schema"
  /\ \E r \in SchemaAnswers :
       /\ mn_schema' = r.kind
       /\ IF r.kind \in {"undefined", "throw"}
          THEN /\ mn_pc' = "finally"
               /\ mn_failed' = TRUE
               /\ UNCHANGED runVars
          ELSE /\ mn_pc' = "running"
               /\ rn_pc' = "entry"
               /\ rn_paths' = r.allPaths
               /\ rn_batchSize' = 5
               /\ rn_st' = [k \in 1..Len(r.allPaths) |-> "idle"]
               /\ rn_out' = [k \in 1..Len(r.allPaths) |-> NoOutcome]
               /\ rn_starts' = [k \in 1..Len(r.allPaths) |-> 0]
               /\ UNCHANGED <<mn_failed, rn_ordered, rn_i, rn_waves,
                              rn_results, rn_returned>>
  /\ UNCHANGED <<mn_reported, mn_exit, schemaVars, storeVars, fetchVars,
                 callVars,
                 upstreamVars, streamVars, analyzeVars>>

\* await buildViews(client): the statements fail unless the relations they
\* select from exist
MainBuildViews ==
  /\ mn_pc = "running"
  /\ rn_pc = "returned"
  /\ IF ViewBases \subseteq db_exists
     THEN mn_pc' = "report" /\ UNCHANGED mn_failed
     ELSE mn_pc' = "finally" /\ mn_failed' = TRUE
  /\ UNCHANGED <<mn_schema, mn_reported, mn_exit, notMainVars>>

\* await reportResults(results)
MainReport ==
  /\ mn_pc = "report"
  /\ mn_reported' = TRUE
  /\ mn_pc' = "finally"
  /\ UNCHANGED <<mn_schema, mn_failed, mn_exit, notMainVars>>

\* finally { client.release(); await pool.end(); }
MainFinally ==
  /\ mn_pc = "finally"
  /\ mn_pc' = IF mn_failed THEN "rejected" ELSE "resolved"
  /\ UNCHANGED <<mn_schema, mn_failed, mn_reported, mn_exit, notMainVars>>

\* main().catch(e => { ...; process.exit(1) }); a resolved main leaves the
\* process to end on its own with code 0
MainExit ==
  /\ mn_pc \in {"rejected", "resolved"}
  /\ mn_exit' = IF mn_pc = "rejected" THEN 1 ELSE 0
  /\ mn_pc' = "exited"
  /\ UNCHANGED <<mn_schema, mn_failed, mn_reported, notMainVars>>

NextMain ==
  \/ MainConnect
  \/ MainEnsureTables
  \/ MainSchema
  \/ RunEnter
  \/ WaveStart
  \/ SyncResolve
  \/ SyncSkip
  \/ SyncRejectCaught
  \/ WaveJoin
  \/ PauseDone
  \/ RunReturn
  \/ MainBuildViews
  \/ MainReport
  \/ MainFinally
  \/ MainExit

\* ------------------------------------------------------------------------
\* Specifications
\* ------------------------------------------------------------------------
\* one fetchWithRetry call at its entry; no run, no request
InitFetch ==
  /\ fr_pc = "attempt"
  /\ fr_i = 0
  /\ fr_log = <<>>
  /\ fr_hint = NoHeader
  /\ fr_pending = 0
  /\ fr_waits = <<>>
  /\ fr_lastWait = [kind |-> "none", ms |-> 0]
  /\ fr_result = "none"
  /\ fr_err = "none"
  /\ rn_pc = "entry"
  /\ rn_paths = <<>>
  /\ rn_batchSize = 5
  /\ rn_ordered = <<>>
  /\ rn_i = 0
  /\ rn_st = <<>>
  /\ rn_out = <<>>
  /\ rn_starts = <<>>
  /\ rn_waves = <<>>
  /\ rn_results = <<>>
  /\ rn_returned = <<>>
  /\ cl_pc = "idle"
  /\ cl_req = [headerSecret |-> "", secret |-> "", path |-> "",
               auto |-> FALSE, ap |-> NoAutoPage]
  /\ cl_take = 0
  /\ cl_maxPages = 0
  /\ cl_maxRows = 0
  /\ cl_skip = 0
  /\ cl_page = 0
  /\ cl_all = <<>>
  /\ cl_fetches = <<>>
  /\ cl_resp = NoResponse
  /\ db_exists = {}
  /\ db_rows = [t \in TableNames |-> <<>>]
  /\ db_cols = [t \in TableNames |-> {}]
  /\ db_log = <<>>
  /\ db_meta = {}
  /\ db_now = 1
  /\ sv_pc = "idle"
  /\ sv_resource = ""
  /\ sv_data = NoData
  /\ sv_i = 0
  /\ sv_queue = <<>>
  /\ sy_pc = "idle"
  /\ sy_path = ""
  /\ sy_resource = ""
  /\ sy_since = 0
  /\ sy_total = 0
  /\ sy_parent = ""
  /\ sy_offset = 0
  /\ sy_ids = <<>>
  /\ sy_batchData = <<>>
  /\ sy_data = NoData
  /\ sy_fetches = <<>>
  /\ sy_log0 = 0
  /\ sy_err = ""
  /\ sy_out = NoOutcome
  /\ dv_pc = "idle"
  /\ dv_first = <<>>
  /\ dv_second = <<>>
  /\ dv_rows0 = <<>>
  /\ sc_pc = "idle"
  /\ sc_cache = NoCatalog
  /\ sc_cacheAt = 0
  /\ sc_clock = 0
  /\ sc_reqNow = 0
  /\ sc_cred = ""
  /\ sc_resp = NoResponse
  /\ sc_fetches = 0
  /\ mn_pc = "idle"
  /\ mn_schema = "none"
  /\ mn_failed = FALSE
  /\ mn_reported = FALSE
  /\ mn_exit = -1
  /\ st_pc = "idle"
  /\ st_table = ""
  /\ st_batchSize = 0
  /\ st_offset = 0
  /\ st_yielded = <<>>
  /\ an_pc = "idle"
  /\ an_rows = <<>>
  /\ an_keys = {}
  /\ an_meta = NoMeta
  /\ up_created = <<>>

SpecFetch == InitFetch /\ [][NextFetch]_vars

\* one runConcurrentSyncs call at its entry, for any arguments
InitRun ==
  /\ fr_pc = "attempt"
  /\ fr_i = 0
  /\ fr_log = <<>>
  /\ fr_hint = NoHeader
  /\ fr_pending = 0
  /\ fr_waits = <<>>
  /\ fr_lastWait = [kind |-> "none", ms |-> 0]
  /\ fr_result = "none"
  /\ fr_err = "none"
  /\ rn_pc = "entry"
  /\ rn_paths \in RunInputs
  /\ rn_batchSize \in BatchSizes
  /\ rn_ordered = <<>>
  /\ rn_i = 0
  /\ rn_st = [k \in 1..Len(rn_paths) |-> "idle"]
  /\ rn_out = [k \in 1..Len(rn_paths) |-> NoOutcome]
  /\ rn_starts = [k \in 1..Len(rn_paths) |-> 0]
  /\ rn_waves = <<>>
  /\ rn_results = <<>>
  /\ rn_returned = <<>>
  /\ cl_pc = "idle"
  /\ cl_req = [headerSecret |-> "", secret |-> "", path |-> "",
               auto |-> FALSE, ap |-> NoAutoPage]
  /\ cl_take = 0
  /\ cl_maxPages = 0
  /\ cl_maxRows = 0
  /\ cl_skip = 0
  /\ cl_page = 0
  /\ cl_all = <<>>
  /\ cl_fetches = <<>>
  /\ cl_resp = NoResponse
  /\ db_exists = {}
  /\ db_rows = [t \in TableNames |-> <<>>]
  /\ db_cols = [t \in TableNames |-> {}]
  /\ db_log = <<>>
  /\ db_meta = {}
  /\ db_now = 1
  /\ sv_pc = "idle"
  /\ sv_resource = ""
  /\ sv_data = NoData
  /\ sv_i = 0
  /\ sv_queue = <<>>
  /\ sy_pc = "idle"
  /\ sy_path = ""
  /\ sy_resource = ""
  /\ sy_since = 0
  /\ sy_total = 0
  /\ sy_parent = ""
  /\ sy_offset = 0
  /\ sy_ids = <<>>
  /\ sy_batchData = <<>>
  /\ sy_data = NoData
  /\ sy_fetches = <<>>
  /\ sy_log0 = 0
  /\ sy_err = ""
  /\ sy_out = NoOutcome
  /\ dv_pc = "idle"
  /\ dv_first = <<>>
  /\ dv_second = <<>>
  /\ dv_rows0 = <<>>
  /\ sc_pc = "idle"
  /\ sc_cache = NoCatalog
  /\ sc_cacheAt = 0
  /\ sc_clock = 0
  /\ sc_reqNow = 0
  /\ sc_cred = ""
  /\ sc_resp = NoResponse
  /\ sc_fetches = 0
  /\ mn_pc = "idle"
  /\ mn_schema = "none"
  /\ mn_failed = FALSE
  /\ mn_reported = FALSE
  /\ mn_exit = -1
  /\ st_pc = "idle"
  /\ st_table = ""
  /\ st_batchSize = 0
  /\ st_offset = 0
  /\ st_yielded = <<>>
  /\ an_pc = "idle"
  /\ an_rows = <<>>
  /\ an_keys = {}
  /\ an_meta = NoMeta
  /\ up_created = <<>>

SpecRun == InitRun /\ [][NextRun]_vars

\* the proxy before a POST /call request arrives
InitCall ==
  /\ fr_pc = "attempt"
  /\ fr_i = 0
  /\ fr_log = <<>>
  /\ fr_hint = NoHeader
  /\ fr_pending = 0
  /\ fr_waits = <<>>
  /\ fr_lastWait = [kind |-> "none", ms |-> 0]
  /\ fr_result = "none"
  /\ fr_err = "none"
  /\ rn_pc = "entry"
  /\ rn_paths = <<>>
  /\ rn_batchSize = 5
  /\ rn_ordered = <<>>
  /\ rn_i = 0
  /\ rn_st = <<>>
  /\ rn_out = <<>>
  /\ rn_starts = <<>>
  /\ rn_waves = <<>>
  /\ rn_results = <<>>
  /\ rn_returned = <<>>
  /\ cl_pc = "idle"
  /\ cl_req = [headerSecret |-> "", secret |-> "", path |-> "",
               auto |-> FALSE, ap |-> NoAutoPage]
  /\ cl_take = 0
  /\ cl_maxPages = 0
  /\ cl_maxRows = 0
  /\ cl_skip = 0
  /\ cl_page = 0
  /\ cl_all = <<>>
  /\ cl_fetches = <<>>
  /\ cl_resp = NoResponse
  /\ db_exists = {}
  /\ db_rows = [t \in TableNames |-> <<>>]
  /\ db_cols = [t \in TableNames |-> {}]
  /\ db_log = <<>>
  /\ db_meta = {}
  /\ db_now = 1
  /\ sv_pc = "idle"
  /\ sv_resource = ""
  /\ sv_data = NoData
  /\ sv_i = 0
  /\ sv_queue = <<>>
  /\ sy_pc = "idle"
  /\ sy_path = ""
  /\ sy_resource = ""
  /\ sy_since = 0
  /\ sy_total = 0
  /\ sy_parent = ""
  /\ sy_offset = 0
  /\ sy_ids = <<>>
  /\ sy_batchData = <<>>
  /\ sy_data = NoData
  /\ sy_fetches = <<>>
  /\ sy_log0 = 0
  /\ sy_err = ""
  /\ sy_out = NoOutcome
  /\ dv_pc = "idle"
  /\ dv_first = <<>>
  /\ dv_second = <<>>
  /\ dv_rows0 = <<>>
  /\ sc_pc = "idle"
  /\ sc_cache = NoCatalog
  /\ sc_cacheAt = 0
  /\ sc_clock = 0
  /\ sc_reqNow = 0
  /\ sc_cred = ""
  /\ sc_resp = NoResponse
  /\ sc_fetches = 0
  /\ mn_pc = "idle"
  /\ mn_schema = "none"
  /\ mn_failed = FALSE
  /\ mn_reported = FALSE
  /\ mn_exit = -1
  /\ st_pc = "idle"
  /\ st_table = ""
  /\ st_batchSize = 0
  /\ st_offset = 0
  /\ st_yielded = <<>>
  /\ an_pc = "idle"
  /\ an_rows = <<>>
  /\ an_keys = {}
  /\ an_meta = NoMeta
  /\ up_created = <<>>

SpecCall == InitCall /\ [][NextCall]_vars

\* one syncResource call at its entry, for any endpoint path, over any store
\* earlier runs can have left behind
InitSync ==
  /\ fr_pc = "attempt"
  /\ fr_i = 0
  /\ fr_log = <<>>
  /\ fr_hint = NoHeader
  /\ fr_pending = 0
  /\ fr_waits = <<>>
  /\ fr_lastWait = [kind |-> "none", ms |-> 0]
  /\ fr_result = "none"
  /\ fr_err = "none"
  /\ rn_pc = "entry"
  /\ rn_paths = <<>>
  /\ rn_batchSize = 5
  /\ rn_ordered = <<>>
  /\ rn_i = 0
  /\ rn_st = <<>>
  /\ rn_out = <<>>
  /\ rn_starts = <<>>
  /\ rn_waves = <<>>
  /\ rn_results = <<>>
  /\ rn_returned = <<>>
  /\ cl_pc = "idle"
  /\ cl_req = [headerSecret |-> "", secret |-> "", path |-> "",
               auto |-> FALSE, ap |-> NoAutoPage]
  /\ cl_take = 0
  /\ cl_maxPages = 0
  /\ cl_maxRows = 0
  /\ cl_skip = 0
  /\ cl_page = 0
  /\ cl_all = <<>>
  /\ cl_fetches = <<>>
  /\ cl_resp = NoResponse
  /\ sy_path \in SyncPaths
  /\ db_exists \in {parents \cup own :
                      parents \in SUBSET ParentNames,
                      own \in SUBSET {DeriveResource(sy_path)}}
  /\ db_rows \in {f \in [TableNames -> ParentRowChoices \cup ResourceRowChoices] :
                    \A t \in TableNames :
                      /\ t \notin db_exists => f[t] = <<>>
                      /\ t \in ParentNames => f[t] \in ParentRowChoices
                      /\ t = "items" /\ t \in db_exists => f[t] = <<2, 1>>
                      /\ t \notin ParentNames => f[t] \in ResourceRowChoices}
  /\ db_cols = [t \in TableNames |->
                  IF db_rows[t] # <<>> THEN DerivedObjects(t) ELSE {}]
  /\ db_log \in InitLogs
  /\ db_meta = {}
  /\ db_now = Len(db_log) + 1
  /\ sv_pc = "idle"
  /\ sv_resource = ""
  /\ sv_data = NoData
  /\ sv_i = 0
  /\ sv_queue = <<>>
  /\ sy_pc = "entry"
  /\ sy_resource = ""
  /\ sy_since = 0
  /\ sy_total = 0
  /\ sy_parent = ""
  /\ sy_offset = 0
  /\ sy_ids = <<>>
  /\ sy_batchData = <<>>
  /\ sy_data = NoData
  /\ sy_fetches = <<>>
  /\ sy_log0 = Len(db_log)
  /\ sy_err = ""
  /\ sy_out = NoOutcome
  /\ dv_pc = "idle"
  /\ dv_first = <<>>
  /\ dv_second = <<>>
  /\ dv_rows0 = <<>>
  /\ sc_pc = "idle"
  /\ sc_cache = NoCatalog
  /\ sc_cacheAt = 0
  /\ sc_clock = 0
  /\ sc_reqNow = 0
  /\ sc_cred = ""
  /\ sc_resp = NoResponse
  /\ sc_fetches = 0
  /\ mn_pc = "idle"
  /\ mn_schema = "none"
  /\ mn_failed = FALSE
  /\ mn_reported = FALSE
  /\ mn_exit = -1
  /\ st_pc = "idle"
  /\ st_table = ""
  /\ st_batchSize = 0
  /\ st_offset = 0
  /\ st_yielded = <<>>
  /\ an_pc = "idle"
  /\ an_rows = <<>>
  /\ an_keys = {}
  /\ an_meta = NoMeta
  /\ up_created = <<>>

SpecSync == InitSync /\ [][NextSync]_vars

\* a fresh store; the upstream holds the records created so far, one per
\* clock value
InitMark ==
  /\ fr_pc = "attempt"
  /\ fr_i = 0
  /\ fr_log = <<>>
  /\ fr_hint = NoHeader
  /\ fr_pending = 0
  /\ fr_waits = <<>>
  /\ fr_lastWait = [kind |-> "none", ms |-> 0]
  /\ fr_result = "none"
  /\ fr_err = "none"
  /\ rn_pc = "entry"
  /\ rn_paths = <<>>
  /\ rn_batchSize = 5
  /\ rn_ordered = <<>>
  /\ rn_i = 0
  /\ rn_st = <<>>
  /\ rn_out = <<>>
  /\ rn_starts = <<>>
  /\ rn_waves = <<>>
  /\ rn_results = <<>>
  /\ rn_returned = <<>>
  /\ cl_pc = "idle"
  /\ cl_req = [headerSecret |-> "", secret |-> "", path |-> "",
               auto |-> FALSE, ap |-> NoAutoPage]
  /\ cl_take = 0
  /\ cl_maxPages = 0
  /\ cl_maxRows = 0
  /\ cl_skip = 0
  /\ cl_page = 0
  /\ cl_all = <<>>
  /\ cl_fetches = <<>>
  /\ cl_resp = NoResponse
  /\ up_created \in {[k \in 1..n |-> k] : n \in 0..(MaxRecords - 1)}
  /\ sy_path = "/api/items/list"
  /\ db_exists = {}
  /\ db_rows = [t \in TableNames |-> <<>>]
  /\ db_cols = [t \in TableNames |-> {}]
  /\ db_log = <<>>
  /\ db_meta = {}
  /\ db_now = Len(up_created) + 1
  /\ sv_pc = "idle"
  /\ sv_resource = ""
  /\ sv_data = NoData
  /\ sv_i = 0
  /\ sv_queue = <<>>
  /\ sy_pc = "entry"
  /\ sy_resource = ""
  /\ sy_since = 0
  /\ sy_total = 0
  /\ sy_parent = ""
  /\ sy_offset = 0
  /\ sy_ids = <<>>
  /\ sy_batchData = <<>>
  /\ sy_data = NoData
  /\ sy_fetches = <<>>
  /\ sy_log0 = 0
  /\ sy_err = ""
  /\ sy_out = NoOutcome
  /\ dv_pc = "idle"
  /\ dv_first = <<>>
  /\ dv_second = <<>>
  /\ dv_rows0 = <<>>
  /\ sc_pc = "idle"
  /\ sc_cache = NoCatalog
  /\ sc_cacheAt = 0
  /\ sc_clock = 0
  /\ sc_reqNow = 0
  /\ sc_cred = ""
  /\ sc_resp = NoResponse
  /\ sc_fetches = 0
  /\ mn_pc = "idle"
  /\ mn_schema = "none"
  /\ mn_failed = FALSE
  /\ mn_reported = FALSE
  /\ mn_exit = -1
  /\ st_pc = "idle"
  /\ st_table = ""
  /\ st_batchSize = 0
  /\ st_offset = 0
  /\ st_yielded = <<>>
  /\ an_pc = "idle"
  /\ an_rows = <<>>
  /\ an_keys = {}
  /\ an_meta = NoMeta

SpecMark == InitMark /\ [][NextMark]_vars

\* a store that holds only the parent relation, with two identifiers
InitFlush ==
  /\ fr_pc = "attempt"
  /\ fr_i = 0
  /\ fr_log = <<>>
  /\ fr_hint = NoHeader
  /\ fr_pending = 0
  /\ fr_waits = <<>>
  /\ fr_lastWait = [kind |-> "none", ms |-> 0]
  /\ fr_result = "none"
  /\ fr_err = "none"
  /\ rn_pc = "entry"
  /\ rn_paths = <<>>
  /\ rn_batchSize = 5
  /\ rn_ordered = <<>>
  /\ rn_i = 0
  /\ rn_st = <<>>
  /\ rn_out = <<>>
  /\ rn_starts = <<>>
  /\ rn_waves = <<>>
  /\ rn_results = <<>>
  /\ rn_returned = <<>>
  /\ cl_pc = "idle"
  /\ cl_req = [headerSecret |-> "", secret |-> "", path |-> "",
               auto |-> FALSE, ap |-> NoAutoPage]
  /\ cl_take = 0
  /\ cl_maxPages = 0
  /\ cl_maxRows = 0
  /\ cl_skip = 0
  /\ cl_page = 0
  /\ cl_all = <<>>
  /\ cl_fetches = <<>>
  /\ cl_resp = NoResponse
  /\ up_created = <<>>
  /\ sy_path = "/api/items/{\\ww}/routing"
  /\ db_exists = {"\\wws"}
  /\ db_rows = [t \in TableNames |-> IF t = "\\wws" THEN <<2, 1>> ELSE <<>>]
  /\ db_cols = [t \in TableNames |->
                  IF t = "\\wws" THEN DerivedObjects(t) ELSE {}]
  /\ db_log = <<>>
  /\ db_meta = {}
  /\ db_now = Len(up_created) + 1
  /\ sv_pc = "idle"
  /\ sv_resource = ""
  /\ sv_data = NoData
  /\ sv_i = 0
  /\ sv_queue = <<>>
  /\ sy_pc = "entry"
  /\ sy_resource = ""
  /\ sy_since = 0
  /\ sy_total = 0
  /\ sy_parent = ""
  /\ sy_offset = 0
  /\ sy_ids = <<>>
  /\ sy_batchData = <<>>
  /\ sy_data = NoData
  /\ sy_fetches = <<>>
  /\ sy_log0 = 0
  /\ sy_err = ""
  /\ sy_out = NoOutcome
  /\ dv_pc = "idle"
  /\ dv_first = <<>>
  /\ dv_second = <<>>
  /\ dv_rows0 = <<>>
  /\ sc_pc = "idle"
  /\ sc_cache = NoCatalog
  /\ sc_cacheAt = 0
  /\ sc_clock = 0
  /\ sc_reqNow = 0
  /\ sc_cred = ""
  /\ sc_resp = NoResponse
  /\ sc_fetches = 0
  /\ mn_pc = "idle"
  /\ mn_schema = "none"
  /\ mn_failed = FALSE
  /\ mn_reported = FALSE
  /\ mn_exit = -1
  /\ st_pc = "idle"
  /\ st_table = ""
  /\ st_batchSize = 0
  /\ st_offset = 0
  /\ st_yielded = <<>>
  /\ an_pc = "idle"
  /\ an_rows = <<>>
  /\ an_keys = {}
  /\ an_meta = NoMeta

SpecFlush == InitFlush /\ [][NextFlush]_vars

\* ---------------------------------------------------------------------------
\* A parent list endpoint followed by its parameterized endpoints: the runner
\* awaits the wave of the first before it starts the next
\* (runConcurrentSyncs, src/unnamed/part_004 410-423).
\* ---------------------------------------------------------------------------

ListPath == "/api/items/list"

ChildPaths == {"/api/items/{itemId}/routing", "/api/items/{\\ww}/routing"}

SyncNextEndpoint ==
  /\ sy_pc = "done"
  /\ sy_path = ListPath
  /\ sy_path' \in ChildPaths
  /\ sy_pc' = "entry"
  /\ sy_log0' = Len(db_log)
  /\ sy_fetches' = <<>>
  /\ sy_data' = NoData
  /\ sy_err' = ""
  /\ sy_out' = NoOutcome
  /\ UNCHANGED <<dbVars, saveVars, sy_resource, sy_since, sy_total,
                 sy_parent, sy_offset, sy_ids, sy_batchData, driverVars,
                 notStoreVars>>

NextChain ==
  \/ SyncEnter
  \/ SyncParentMissing
  \/ SyncParentPresent
  \/ SyncStreamBatch
  \/ SyncFetchId
  \/ SyncFetchDirect
  \/ SyncSaveReturn
  \/ SyncSaveThrows
  \/ SyncWriteLog
  \/ SyncAnalyze
  \/ SyncCatch
  \/ SaveCreateTable
  \/ SaveIssueBatch
  \/ SaveInsertDone
  \/ SaveInsertFail
  \/ SaveBatchJoin
  \/ SaveAlter
  \/ SyncNextEndpoint

InitChain ==
  /\ fr_pc = "attempt"
  /\ fr_i = 0
  /\ fr_log = <<>>
  /\ fr_hint = NoHeader
  /\ fr_pending = 0
  /\ fr_waits = <<>>
  /\ fr_lastWait = [kind |-> "none", ms |-> 0]
  /\ fr_result = "none"
  /\ fr_err = "none"
  /\ rn_pc = "entry"
  /\ rn_paths = <<>>
  /\ rn_batchSize = 5
  /\ rn_ordered = <<>>
  /\ rn_i = 0
  /\ rn_st = <<>>
  /\ rn_out = <<>>
  /\ rn_starts = <<>>
  /\ rn_waves = <<>>
  /\ rn_results = <<>>
  /\ rn_returned = <<>>
  /\ cl_pc = "idle"
  /\ cl_req = [headerSecret |-> "", secret |-> "", path |-> "",
               auto |-> FALSE, ap |-> NoAutoPage]
  /\ cl_take = 0
  /\ cl_maxPages = 0
  /\ cl_maxRows = 0
  /\ cl_skip = 0
  /\ cl_page = 0
  /\ cl_all = <<>>
  /\ cl_fetches = <<>>
  /\ cl_resp = NoResponse
  /\ up_created = <<>>
  /\ sy_path = ListPath
  /\ db_exists \in {{}, {"\\wws"}}
  /\ db_rows = [t \in TableNames |->
                  IF t \in db_exists THEN <<2, 1>> ELSE <<>>]
  /\ db_cols = [t \in TableNames |->
                  IF t = "\\wws" THEN DerivedObjects(t) ELSE {}]
  /\ db_log = <<>>
  /\ db_meta = {}
  /\ db_now = Len(up_created) + 1
  /\ sv_pc = "idle"
  /\ sv_resource = ""
  /\ sv_data = NoData
  /\ sv_i = 0
  /\ sv_queue = <<>>
  /\ sy_pc = "entry"
  /\ sy_resource = ""
  /\ sy_since = 0
  /\ sy_total = 0
  /\ sy_parent = ""
  /\ sy_offset = 0
  /\ sy_ids = <<>>
  /\ sy_batchData = <<>>
  /\ sy_data = NoData
  /\ sy_fetches = <<>>
  /\ sy_log0 = 0
  /\ sy_err = ""
  /\ sy_out = NoOutcome
  /\ dv_pc = "idle"
  /\ dv_first = <<>>
  /\ dv_second = <<>>
  /\ dv_rows0 = <<>>
  /\ sc_pc = "idle"
  /\ sc_cache = NoCatalog
  /\ sc_cacheAt = 0
  /\ sc_clock = 0
  /\ sc_reqNow = 0
  /\ sc_cred = ""
  /\ sc_resp = NoResponse
  /\ sc_fetches = 0
  /\ mn_pc = "idle"
  /\ mn_schema = "none"
  /\ mn_failed = FALSE
  /\ mn_reported = FALSE
  /\ mn_exit = -1
  /\ st_pc = "idle"
  /\ st_table = ""
  /\ st_batchSize = 0
  /\ st_offset = 0
  /\ st_yielded = <<>>
  /\ an_pc = "idle"
  /\ an_rows = <<>>
  /\ an_keys = {}
  /\ an_meta = NoMeta

SpecChain == InitChain /\ [][NextChain]_vars


\* a fresh store and an upstream list of one of the sizes of UpstreamSizes
InitMirror ==
  /\ fr_pc = "attempt"
  /\ fr_i = 0
  /\ fr_log = <<>>
  /\ fr_hint = NoHeader
  /\ fr_pending = 0
  /\ fr_waits = <<>>
  /\ fr_lastWait = [kind |-> "none", ms |-> 0]
  /\ fr_result = "none"
  /\ fr_err = "none"
  /\ rn_pc = "entry"
  /\ rn_paths = <<>>
  /\ rn_batchSize = 5
  /\ rn_ordered = <<>>
  /\ rn_i = 0
  /\ rn_st = <<>>
  /\ rn_out = <<>>
  /\ rn_starts = <<>>
  /\ rn_waves = <<>>
  /\ rn_results = <<>>
  /\ rn_returned = <<>>
  /\ cl_pc = "idle"
  /\ cl_req = [headerSecret |-> "", secret |-> "", path |-> "",
               auto |-> FALSE, ap |-> NoAutoPage]
  /\ cl_take = 0
  /\ cl_maxPages = 0
  /\ cl_maxRows = 0
  /\ cl_skip = 0
  /\ cl_page = 0
  /\ cl_all = <<>>
  /\ cl_fetches = <<>>
  /\ cl_resp = NoResponse
  /\ up_created \in {[k \in 1..n |-> k] : n \in UpstreamSizes}
  /\ sy_path = "/api/items/list"
  /\ db_exists = {}
  /\ db_rows = [t \in TableNames |-> <<>>]
  /\ db_cols = [t \in TableNames |-> {}]
  /\ db_log = <<>>
  /\ db_meta = {}
  /\ db_now = Len(up_created) + 1
  /\ sv_pc = "idle"
  /\ sv_resource = ""
  /\ sv_data = NoData
  /\ sv_i = 0
  /\ sv_queue = <<>>
  /\ sy_pc = "entry"
  /\ sy_resource = ""
  /\ sy_since = 0
  /\ sy_total = 0
  /\ sy_parent = ""
  /\ sy_offset = 0
  /\ sy_ids = <<>>
  /\ sy_batchData = <<>>
  /\ sy_data = NoData
  /\ sy_fetches = <<>>
  /\ sy_log0 = 0
  /\ sy_err = ""
  /\ sy_out = NoOutcome
  /\ dv_pc = "idle"
  /\ dv_first = <<>>
  /\ dv_second = <<>>
  /\ dv_rows0 = <<>>
  /\ sc_pc = "idle"
  /\ sc_cache = NoCatalog
  /\ sc_cacheAt = 0
  /\ sc_clock = 0
  /\ sc_reqNow = 0
  /\ sc_cred = ""
  /\ sc_resp = NoResponse
  /\ sc_fetches = 0
  /\ mn_pc = "idle"
  /\ mn_schema = "none"
  /\ mn_failed = FALSE
  /\ mn_reported = FALSE
  /\ mn_exit = -1
  /\ st_pc = "idle"
  /\ st_table = ""
  /\ st_batchSize = 0
  /\ st_offset = 0
  /\ st_yielded = <<>>
  /\ an_pc = "idle"
  /\ an_rows = <<>>
  /\ an_keys = {}
  /\ an_meta = NoMeta

SpecMirror == InitMirror /\ [][NextMirror]_vars

\* two saveBatch calls about to be made for one resource with disjoint
\* non-empty record sets; the relation may exist from an earlier run
InitSave ==
  /\ fr_pc = "attempt"
  /\ fr_i = 0
  /\ fr_log = <<>>
  /\ fr_hint = NoHeader
  /\ fr_pending = 0
  /\ fr_waits = <<>>
  /\ fr_lastWait = [kind |-> "none", ms |-> 0]
  /\ fr_result = "none"
  /\ fr_err = "none"
  /\ rn_pc = "entry"
  /\ rn_paths = <<>>
  /\ rn_batchSize = 5
  /\ rn_ordered = <<>>
  /\ rn_i = 0
  /\ rn_st = <<>>
  /\ rn_out = <<>>
  /\ rn_starts = <<>>
  /\ rn_waves = <<>>
  /\ rn_results = <<>>
  /\ rn_returned = <<>>
  /\ cl_pc = "idle"
  /\ cl_req = [headerSecret |-> "", secret |-> "", path |-> "",
               auto |-> FALSE, ap |-> NoAutoPage]
  /\ cl_take = 0
  /\ cl_maxPages = 0
  /\ cl_maxRows = 0
  /\ cl_skip = 0
  /\ cl_page = 0
  /\ cl_all = <<>>
  /\ cl_fetches = <<>>
  /\ cl_resp = NoResponse
  /\ dv_pc = "first"
  /\ dv_first \in RecordLists \ {<<>>}
  /\ dv_second \in {r \in RecordLists \ {<<>>} :
                      \A a \in DOMAIN dv_first, b \in DOMAIN r :
                        dv_first[a] # r[b]}
  /\ dv_rows0 \in ResourceRowChoices
  /\ db_exists \in IF dv_rows0 = <<>> THEN {{}, {DriverResource}}
                   ELSE {{DriverResource}}
  /\ db_rows = [t \in TableNames |->
                  IF t = DriverResource THEN dv_rows0 ELSE <<>>]
  /\ db_cols = [t \in TableNames |->
                  IF db_rows[t] # <<>> THEN DerivedObjects(t) ELSE {}]
  /\ db_log = <<>>
  /\ db_meta = {}
  /\ db_now = 1
  /\ sv_pc = "idle"
  /\ sv_resource = ""
  /\ sv_data = NoData
  /\ sv_i = 0
  /\ sv_queue = <<>>
  /\ sy_pc = "idle"
  /\ sy_path = ""
  /\ sy_resource = ""
  /\ sy_since = 0
  /\ sy_total = 0
  /\ sy_parent = ""
  /\ sy_offset = 0
  /\ sy_ids = <<>>
  /\ sy_batchData = <<>>
  /\ sy_data = NoData
  /\ sy_fetches = <<>>
  /\ sy_log0 = 0
  /\ sy_err = ""
  /\ sy_out = NoOutcome
  /\ sc_pc = "idle"
  /\ sc_cache = NoCatalog
  /\ sc_cacheAt = 0
  /\ sc_clock = 0
  /\ sc_reqNow = 0
  /\ sc_cred = ""
  /\ sc_resp = NoResponse
  /\ sc_fetches = 0
  /\ mn_pc = "idle"
  /\ mn_schema = "none"
  /\ mn_failed = FALSE
  /\ mn_reported = FALSE
  /\ mn_exit = -1
  /\ st_pc = "idle"
  /\ st_table = ""
  /\ st_batchSize = 0
  /\ st_offset = 0
  /\ st_yielded = <<>>
  /\ an_pc = "idle"
  /\ an_rows = <<>>
  /\ an_keys = {}
  /\ an_meta = NoMeta
  /\ up_created = <<>>

SpecSave == InitSave /\ [][NextSave]_vars

\* ---------------------------------------------------------------------------
\* streamParentIds(client, table, batchSize = 10000), src/unnamed/part_004
\* 313-324, as a generator driven by its consumer.  The batch size is the
\* function's parameter; the engine passes the default.  A row's identifier
\* is payload->>'id' (0: the payload has none, NULL sorts last).
\* ---------------------------------------------------------------------------

MaxParentRows == 3

\* contents of the parent relation: any rows, rows sharing an identifier and
\* rows without one included (saveBatch appends, it never de-duplicates)
ParentRelations ==
  UNION {[1..n -> 0..MaxRecords] : n \in 0..MaxParentRows}

StreamBatchSizes == {1, 2, 3, StreamBatchSize}

\* offset += res.rows.length
StreamAdvanceOne(offset, rows) == offset + 1

StreamAdvance(offset, rows) == offset + Len(rows)

\* the call: let offset = 0
StreamCall ==
  /\ st_pc = "idle"
  /\ \E b \in StreamBatchSizes :
       /\ st_table' = "items"
       /\ st_batchSize' = b
  /\ st_offset' = 0
  /\ st_yielded' = <<>>
  /\ st_pc' = "query"
  /\ UNCHANGED <<fetchVars, runVars, callVars, storeVars, schemaVars,
                 mainVars, upstreamVars, analyzeVars>>

\* one turn of the loop with a non-empty answer: yield, then advance
StreamYield ==
  /\ st_pc = "query"
  /\ LET res == OffsetLimit(OrderById(db_rows[st_table]), st_offset,
                            st_batchSize) IN
       /\ res # <<>>
       /\ st_yielded' = Append(st_yielded,
                               [at |-> st_offset, ids |-> FilterBoolean(res)])
       /\ st_offset' = StreamAdvance(st_offset, res)
  /\ UNCHANGED <<st_pc, st_table, st_batchSize, fetchVars, runVars, callVars,
                 storeVars, schemaVars, mainVars, upstreamVars, analyzeVars>>

\* if (!res.rows.length) break
StreamBreak ==
  /\ st_pc = "query"
  /\ OffsetLimit(OrderById(db_rows[st_table]), st_offset, st_batchSize) = <<>>
  /\ st_pc' = "end"
  /\ UNCHANGED <<st_table, st_batchSize, st_offset, st_yielded, fetchVars,
                 runVars, callVars, storeVars, schemaVars, mainVars,
                 upstreamVars, analyzeVars>>

NextStream ==
  \/ StreamCall
  \/ StreamYield
  \/ StreamBreak

InitStream ==
  /\ fr_pc = "attempt"
  /\ fr_i = 0
  /\ fr_log = <<>>
  /\ fr_hint = NoHeader
  /\ fr_pending = 0
  /\ fr_waits = <<>>
  /\ fr_lastWait = [kind |-> "none", ms |-> 0]
  /\ fr_result = "none"
  /\ fr_err = "none"
  /\ rn_pc = "entry"
  /\ rn_paths = <<>>
  /\ rn_batchSize = 5
  /\ rn_ordered = <<>>
  /\ rn_i = 0
  /\ rn_st = <<>>
  /\ rn_out = <<>>
  /\ rn_starts = <<>>
  /\ rn_waves = <<>>
  /\ rn_results = <<>>
  /\ rn_returned = <<>>
  /\ cl_pc = "idle"
  /\ cl_req = [headerSecret |-> "", secret |-> "", path |-> "",
               auto |-> FALSE, ap |-> NoAutoPage]
  /\ cl_take = 0
  /\ cl_maxPages = 0
  /\ cl_maxRows = 0
  /\ cl_skip = 0
  /\ cl_page = 0
  /\ cl_all = <<>>
  /\ cl_fetches = <<>>
  /\ cl_resp = NoResponse
  /\ dv_pc = "first"
  /\ dv_first = <<>>
  /\ dv_second = <<>>
  /\ dv_rows0 = <<>>
  /\ db_exists = {"items"}
  /\ \E rows \in ParentRelations :
       db_rows = [t \in TableNames |-> IF t = "items" THEN rows ELSE <<>>]
  /\ db_cols = [t \in TableNames |->
                  IF db_rows[t] # <<>> THEN DerivedObjects(t) ELSE {}]
  /\ db_log = <<>>
  /\ db_meta = {}
  /\ db_now = 1
  /\ sv_pc = "idle"
  /\ sv_resource = ""
  /\ sv_data = NoData
  /\ sv_i = 0
  /\ sv_queue = <<>>
  /\ sy_pc = "idle"
  /\ sy_path = ""
  /\ sy_resource = ""
  /\ sy_since = 0
  /\ sy_total = 0
  /\ sy_parent = ""
  /\ sy_offset = 0
  /\ sy_ids = <<>>
  /\ sy_batchData = <<>>
  /\ sy_data = NoData
  /\ sy_fetches = <<>>
  /\ sy_log0 = 0
  /\ sy_err = ""
  /\ sy_out = NoOutcome
  /\ sc_pc = "idle"
  /\ sc_cache = NoCatalog
  /\ sc_cacheAt = 0
  /\ sc_clock = 0
  /\ sc_reqNow = 0
  /\ sc_cred = ""
  /\ sc_resp = NoResponse
  /\ sc_fetches = 0
  /\ mn_pc = "idle"
  /\ mn_schema = "none"
  /\ mn_failed = FALSE
  /\ mn_reported = FALSE
  /\ mn_exit = -1
  /\ st_pc = "idle"
  /\ st_table = ""
  /\ st_batchSize = 0
  /\ st_offset = 0
  /\ st_yielded = <<>>
  /\ an_pc = "idle"
  /\ an_rows = <<>>
  /\ an_keys = {}
  /\ an_meta = NoMeta
  /\ up_created = <<>>


\* the consumer's for-await resumes the generator after every batch and the
\* store answers every query
SpecStream ==
  InitStream /\ [][NextStream]_vars /\ WF_vars(NextStream)

\* ---------------------------------------------------------------------------
\* analyzeSchema(client, resource), src/unnamed/part_004 293-308.  A row of the
\* relation is represented by the set of top-level keys of its payload
\* (NullPayload: the payload is JSON null); the order in which
\* JSON.stringify lists the keys is left out.
\* ---------------------------------------------------------------------------

SampleLimit == 25

NullPayload == {"<null>"}

PayloadKeys == {"id", "itemId", "name"}

\* Object.keys(r.payload || {})
ObjectKeys(payload) == IF payload = NullPayload THEN {} ELSE payload

Payloads == (SUBSET PayloadKeys) \cup {NullPayload}

\* relations of up to two rows, and one of 26 rows whose last row alone
\* carries the key vendorId
SampledRelations ==
  UNION {[1..n -> Payloads] : n \in 0..2} \cup
  {[k \in 1..(SampleLimit + 1) |->
      IF k <= SampleLimit THEN {"id", "name"} ELSE {"id", "vendorId"}]}

\* /id$/i.test(k)
EndsWithId(k) ==
  Len(k) >= 2 /\ ToLowerCase(SubSeq(k, Len(k) - 1, Len(k))) = "id"

\* k.replace(/Id$/i, "").toLowerCase() + "s"
RelatedName(k) ==
  ToLowerCase(IF EndsWithId(k) THEN SubSeq(k, 1, Len(k) - 2) ELSE k) \o "s"

\* const keyFields = [...keys].filter(k => /id$/i.test(k))
KeyFields(keys) == {k \in keys : EndsWithId(k)}

\* SELECT payload FROM resource LIMIT 25, then the union of the keys
AnalyzeSample ==
  /\ an_pc = "idle"
  /\ an_keys' = UNION {ObjectKeys(an_rows[k]) :
                         k \in 1..Min(SampleLimit, Len(an_rows))}
  /\ an_pc' = "sampled"
  /\ UNCHANGED <<an_rows, an_meta, fetchVars, runVars, callVars, storeVars,
                 schemaVars, mainVars, upstreamVars, streamVars>>

\* INSERT ... VALUES ($1, JSON.stringify([...keys]), JSON.stringify(rels),
\* NOW()) ON CONFLICT (table_name) DO UPDATE
AnalyzeStore ==
  /\ an_pc = "sampled"
  /\ an_meta' = [kind |-> "row",
                 key_fields |-> an_keys,
                 relationships |-> [k \in KeyFields(an_keys) |-> RelatedName(k)]]
  /\ an_pc' = "stored"
  /\ UNCHANGED <<an_rows, an_keys, fetchVars, runVars, callVars, storeVars,
                 schemaVars, mainVars, upstreamVars, streamVars>>

NextAnalyze ==
  \/ AnalyzeSample
  \/ AnalyzeStore

InitAnalyze ==
  /\ fr_pc = "attempt"
  /\ fr_i = 0
  /\ fr_log = <<>>
  /\ fr_hint = NoHeader
  /\ fr_pending = 0
  /\ fr_waits = <<>>
  /\ fr_lastWait = [kind |-> "none", ms |-> 0]
  /\ fr_result = "none"
  /\ fr_err = "none"
  /\ rn_pc = "entry"
  /\ rn_paths = <<>>
  /\ rn_batchSize = 5
  /\ rn_ordered = <<>>
  /\ rn_i = 0
  /\ rn_st = <<>>
  /\ rn_out = <<>>
  /\ rn_starts = <<>>
  /\ rn_waves = <<>>
  /\ rn_results = <<>>
  /\ rn_returned = <<>>
  /\ cl_pc = "idle"
  /\ cl_req = [headerSecret |-> "", secret |-> "", path |-> "",
               auto |-> FALSE, ap |-> NoAutoPage]
  /\ cl_take = 0
  /\ cl_maxPages = 0
  /\ cl_maxRows = 0
  /\ cl_skip = 0
  /\ cl_page = 0
  /\ cl_all = <<>>
  /\ cl_fetches = <<>>
  /\ cl_resp = NoResponse
  /\ dv_pc = "first"
  /\ dv_first = <<>>
  /\ dv_second = <<>>
  /\ dv_rows0 = <<>>
  /\ db_exists = {"items"}
  /\ db_rows = [t \in TableNames |-> <<>>]
  /\ db_cols = [t \in TableNames |->
                  IF db_rows[t] # <<>> THEN DerivedObjects(t) ELSE {}]
  /\ db_log = <<>>
  /\ db_meta = {}
  /\ db_now = 1
  /\ sv_pc = "idle"
  /\ sv_resource = ""
  /\ sv_data = NoData
  /\ sv_i = 0
  /\ sv_queue = <<>>
  /\ sy_pc = "idle"
  /\ sy_path = ""
  /\ sy_resource = ""
  /\ sy_since = 0
  /\ sy_total = 0
  /\ sy_parent = ""
  /\ sy_offset = 0
  /\ sy_ids = <<>>
  /\ sy_batchData = <<>>
  /\ sy_data = NoData
  /\ sy_fetches = <<>>
  /\ sy_log0 = 0
  /\ sy_err = ""
  /\ sy_out = NoOutcome
  /\ sc_pc = "idle"
  /\ sc_cache = NoCatalog
  /\ sc_cacheAt = 0
  /\ sc_clock = 0
  /\ sc_reqNow = 0
  /\ sc_cred = ""
  /\ sc_resp = NoResponse
  /\ sc_fetches = 0
  /\ mn_pc = "idle"
  /\ mn_schema = "none"
  /\ mn_failed = FALSE
  /\ mn_reported = FALSE
  /\ mn_exit = -1
  /\ st_pc = "idle"
  /\ st_table = ""
  /\ st_batchSize = 0
  /\ st_offset = 0
  /\ st_yielded = <<>>
  /\ an_pc = "idle"
  /\ an_rows \in SampledRelations
  /\ an_keys = {}
  /\ an_meta = NoMeta
  /\ up_created = <<>>


SpecAnalyze == InitAnalyze /\ [][NextAnalyze]_vars



\* the proxy after start-up: no catalog cached, no request served yet
InitSchema ==
  /\ fr_pc = "attempt"
  /\ fr_i = 0
  /\ fr_log = <<>>
  /\ fr_hint = NoHeader
  /\ fr_pending = 0
  /\ fr_waits = <<>>
  /\ fr_lastWait = [kind |-> "none", ms |-> 0]
  /\ fr_result = "none"
  /\ fr_err = "none"
  /\ rn_pc = "entry"
  /\ rn_paths = <<>>
  /\ rn_batchSize = 5
  /\ rn_ordered = <<>>
  /\ rn_i = 0
  /\ rn_st = <<>>
  /\ rn_out = <<>>
  /\ rn_starts = <<>>
  /\ rn_waves = <<>>
  /\ rn_results = <<>>
  /\ rn_returned = <<>>
  /\ cl_pc = "idle"
  /\ cl_req = [headerSecret |-> "", secret |-> "", path |-> "",
               auto |-> FALSE, ap |-> NoAutoPage]
  /\ cl_take = 0
  /\ cl_maxPages = 0
  /\ cl_maxRows = 0
  /\ cl_skip = 0
  /\ cl_page = 0
  /\ cl_all = <<>>
  /\ cl_fetches = <<>>
  /\ cl_resp = NoResponse
  /\ db_exists = {}
  /\ db_rows = [t \in TableNames |-> <<>>]
  /\ db_cols = [t \in TableNames |-> {}]
  /\ db_log = <<>>
  /\ db_meta = {}
  /\ db_now = 1
  /\ sv_pc = "idle"
  /\ sv_resource = ""
  /\ sv_data = NoData
  /\ sv_i = 0
  /\ sv_queue = <<>>
  /\ sy_pc = "idle"
  /\ sy_path = ""
  /\ sy_resource = ""
  /\ sy_since = 0
  /\ sy_total = 0
  /\ sy_parent = ""
  /\ sy_offset = 0
  /\ sy_ids = <<>>
  /\ sy_batchData = <<>>
  /\ sy_data = NoData
  /\ sy_fetches = <<>>
  /\ sy_log0 = 0
  /\ sy_err = ""
  /\ sy_out = NoOutcome
  /\ dv_pc = "idle"
  /\ dv_first = <<>>
  /\ dv_second = <<>>
  /\ dv_rows0 = <<>>
  /\ sc_pc = "idle"
  /\ sc_cache = NoCatalog
  /\ sc_cacheAt = 0
  /\ sc_clock = 0
  /\ sc_reqNow = 0
  /\ sc_cred = ""
  /\ sc_resp = NoResponse
  /\ sc_fetches = 0
  /\ mn_pc = "idle"
  /\ mn_schema = "none"
  /\ mn_failed = FALSE
  /\ mn_reported = FALSE
  /\ mn_exit = -1
  /\ st_pc = "idle"
  /\ st_table = ""
  /\ st_batchSize = 0
  /\ st_offset = 0
  /\ st_yielded = <<>>
  /\ an_pc = "idle"
  /\ an_rows = <<>>
  /\ an_keys = {}
  /\ an_meta = NoMeta
  /\ up_created = <<>>

SpecSchema == InitSchema /\ [][NextSchema]_vars

\* the mirror process at the start of main; the relations the views read may
\* or may not exist in the store
InitMain ==
  /\ fr_pc = "attempt"
  /\ fr_i = 0
  /\ fr_log = <<>>
  /\ fr_hint = NoHeader
  /\ fr_pending = 0
  /\ fr_waits = <<>>
  /\ fr_lastWait = [kind |-> "none", ms |-> 0]
  /\ fr_result = "none"
  /\ fr_err = "none"
  /\ rn_pc = "unstarted"
  /\ rn_paths = <<>>
  /\ rn_batchSize = 5
  /\ rn_ordered = <<>>
  /\ rn_i = 0
  /\ rn_st = <<>>
  /\ rn_out = <<>>
  /\ rn_starts = <<>>
  /\ rn_waves = <<>>
  /\ rn_results = <<>>
  /\ rn_returned = <<>>
  /\ cl_pc = "idle"
  /\ cl_req = [headerSecret |-> "", secret |-> "", path |-> "",
               auto |-> FALSE, ap |-> NoAutoPage]
  /\ cl_take = 0
  /\ cl_maxPages = 0
  /\ cl_maxRows = 0
  /\ cl_skip = 0
  /\ cl_page = 0
  /\ cl_all = <<>>
  /\ cl_fetches = <<>>
  /\ cl_resp = NoResponse
  /\ db_exists \in {{}, ViewBases}
  /\ db_rows = [t \in TableNames |-> <<>>]
  /\ db_cols = [t \in TableNames |-> {}]
  /\ db_log = <<>>
  /\ db_meta = {}
  /\ db_now = 1
  /\ sv_pc = "idle"
  /\ sv_resource = ""
  /\ sv_data = NoData
  /\ sv_i = 0
  /\ sv_queue = <<>>
  /\ sy_pc = "idle"
  /\ sy_path = ""
  /\ sy_resource = ""
  /\ sy_since = 0
  /\ sy_total = 0
  /\ sy_parent = ""
  /\ sy_offset = 0
  /\ sy_ids = <<>>
  /\ sy_batchData = <<>>
  /\ sy_data = NoData
  /\ sy_fetches = <<>>
  /\ sy_log0 = 0
  /\ sy_err = ""
  /\ sy_out = NoOutcome
  /\ dv_pc = "idle"
  /\ dv_first = <<>>
  /\ dv_second = <<>>
  /\ dv_rows0 = <<>>
  /\ sc_pc = "idle"
  /\ sc_cache = NoCatalog
  /\ sc_cacheAt = 0
  /\ sc_clock = 0
  /\ sc_reqNow = 0
  /\ sc_cred = ""
  /\ sc_resp = NoResponse
  /\ sc_fetches = 0
  /\ mn_pc = "start"
  /\ mn_schema = "none"
  /\ mn_failed = FALSE
  /\ mn_reported = FALSE
  /\ mn_exit = -1
  /\ st_pc = "idle"
  /\ st_table = ""
  /\ st_batchSize = 0
  /\ st_offset = 0
  /\ st_yielded = <<>>
  /\ an_pc = "idle"
  /\ an_rows = <<>>
  /\ an_keys = {}
  /\ an_meta = NoMeta
  /\ up_created = <<>>

SpecMain == InitMain /\ [][NextMain]_vars

\* ------------------------------------------------------------------------
\* fetchWithRetry: properties
\* ------------------------------------------------------------------------
FetchEnded == fr_pc \in {"returned", "thrown"}

Count429(log) == Cardinality({k \in 1..Len(log) : log[k] = "429"})

\* number of failures in log that are not 429 responses
CountFailures(log) ==
  Cardinality({k \in 1..Len(log) :
                 log[k] \in {"http", "auth", "transport", "badjson"}})

\* h is the decimal text of a number of seconds
IsDecimalText(h) == h # <<>> /\ \A k \in 1..Len(h) : h[k] \in Digits

\* C6: a single logical call makes at most 5 HTTP attempts, 429 answers included.
C6_AtMostFiveAttempts == Len(fr_log) <= 5

C6_Witness ==
  /\ FetchEnded
  /\ Len(fr_log) = 5
  /\ Count429(fr_log) >= 1
  /\ CountFailures(fr_log) >= 1

\* C7: when all 5 attempts fail (in any combination of transport failure,
\* non-success status and 429), the call ends by raising the last error; it
\* never completes normally.
C7_ExhaustionRaises ==
  (FetchEnded /\ Len(fr_log) = 5 /\ \A k \in 1..5 : fr_log[k] # "ok")
    => (fr_pc = "thrown" /\ fr_result = "error")

\* C8: a 429 carrying a retry-after hint of h seconds makes the call wait
\* exactly h seconds before the next attempt.
C8_WaitsExactlyHint ==
  (fr_pc = "sleep429" /\ IsDecimalText(fr_hint))
    => fr_pending = DigitPrefix(fr_hint, 0) * 1000

\* C9: the wait applied after the k-th non-429 failure of a call is
\* 2s * 2^(k-1), whatever the number of 429 answers received before it.
C9_BackoffIgnores429 ==
  fr_pc = "sleepBackoff"
    => fr_pending = 2000 * Pow2(CountFailures(fr_log) - 1)

\* C10: in a call that receives no 429 the waits between consecutive failed
\* attempts are 2s, 4s, 8s, 16s, one after each failed attempt but the fifth,
\* and the error is raised right after the fifth failure without a wait.
C10_ExpectedWaits == <<2000, 4000, 8000, 16000>>

C10_BackoffSchedule ==
  Count429(fr_log) = 0 =>
    /\ Len(fr_waits) <= 4
    /\ fr_waits = SubSeq(C10_ExpectedWaits, 1, Len(fr_waits))
    /\ fr_pc = "sleepBackoff" =>
         /\ Len(fr_waits) = CountFailures(fr_log) - 1
         /\ fr_pending = C10_ExpectedWaits[CountFailures(fr_log)]
    /\ fr_pc \in {"attempt", "returned"} => Len(fr_waits) = CountFailures(fr_log)
    /\ fr_pc = "thrown" =>
         /\ CountFailures(fr_log) = 5
         /\ fr_waits = C10_ExpectedWaits
         /\ fr_lastWait = [kind |-> "backoff", ms |-> 16000]

C10_Witness ==
  /\ fr_pc = "thrown"
  /\ Count429(fr_log) = 0
  /\ fr_waits = <<2000, 4000, 8000, 16000>>

\* C11: when the gateway answers a call with 401 or 403 the Fetcher does not
\* retry: exactly one HTTP attempt is made and the call ends with an
\* authorization error that differs from the error of other failures.
C11_AuthNotRetried ==
  (\E k \in 1..Len(fr_log) : fr_log[k] = "auth") =>
    /\ Len(fr_log) = 1
    /\ fr_pc = "thrown"
    /\ fr_err \notin {"http", "transport", "badjson"}

\* ------------------------------------------------------------------------
\* runConcurrentSyncs: properties
\* ------------------------------------------------------------------------
Positions == DOMAIN rn_st

\* 0-based number of the wave the path at position k belongs to
WaveOf(k) == (k - 1) \div rn_batchSize

Settled(k) ==
  /\ rn_st[k] = "settled"
  /\ rn_out[k].kind \in {"synced", "skipped", "caught"}

\* C1: no synchronization of wave N+1 starts before every synchronization of
\* wave N has settled, by success or by a caught failure.
C1_WaveOrdering ==
  \A j, k \in Positions :
    (WaveOf(j) < WaveOf(k) /\ rn_st[k] # "idle") => Settled(j)

C1_Witness ==
  \E j, k, m \in Positions :
    /\ WaveOf(j) = 0 /\ WaveOf(m) = 0 /\ WaveOf(k) = 1
    /\ rn_out[j].kind = "caught"
    /\ rn_out[m].kind = "synced"
    /\ rn_st[k] = "running"

\* C2: a failure of one endpoint's synchronization becomes an outcome with row
\* count 0 and a non-empty error list, and the run still synchronizes every
\* path exactly once and returns exactly one outcome per input path.
C2_FailureIsolated ==
  /\ \A k \in Positions :
       /\ rn_starts[k] <= 1
       /\ rn_out[k].kind = "caught" =>
            (rn_out[k].rowcount = 0 /\ Len(rn_out[k].errors) > 0)
  /\ rn_pc = "returned" =>
       /\ Len(rn_returned) = Len(rn_paths)
       /\ {rn_ordered[k] : k \in 1..Len(rn_ordered)} =
            {rn_paths[k] : k \in 1..Len(rn_paths)}
       /\ \A k \in Positions :
            /\ rn_starts[k] = 1
            /\ Settled(k)
            /\ rn_returned[k] = rn_out[k]
            /\ rn_returned[k].resource =
                 IF rn_returned[k].kind = "caught" THEN rn_ordered[k]
                 ELSE DeriveResource(rn_ordered[k])

C2_Witness ==
  /\ rn_pc = "returned"
  /\ \E j, k, m \in Positions :
       /\ WaveOf(j) = 0 /\ WaveOf(m) = 0 /\ WaveOf(k) = 1
       /\ rn_returned[j].kind = "caught"
       /\ rn_returned[m].kind = "synced"
       /\ rn_returned[k].kind = "synced"

\* C3: the waves are the consecutive groups of `concurrency` paths of the
\* ordered list (only the last may be smaller), at most `concurrency`
\* synchronizations are in flight at any time, and 3 endpoints with
\* concurrency 5 give one wave of 3 whose run completes only after all three
\* have settled.
C3_Waves ==
  /\ Cardinality({k \in Positions : rn_st[k] = "running"}) <= rn_batchSize
  /\ \A w \in 1..Len(rn_waves) :
       /\ Len(rn_waves[w]) <= rn_batchSize
       /\ w < Len(rn_waves) => Len(rn_waves[w]) = rn_batchSize
       /\ \A k \in 1..Len(rn_waves[w]) :
            rn_waves[w][k] = rn_ordered[(w - 1) * rn_batchSize + k]
  /\ rn_pc = "returned" =>
       /\ Len(rn_waves) * rn_batchSize >= Len(rn_paths)
       /\ (Len(rn_waves) - 1) * rn_batchSize < Len(rn_paths) \/ rn_paths = <<>>
       /\ \A k \in Positions : Settled(k)
  /\ (Len(rn_paths) = 3 /\ rn_batchSize = 5) =>
       /\ Len(rn_waves) <= 1
       /\ rn_pc \in {"awaitAll", "pause", "returned"} =>
            (Len(rn_waves) = 1 /\ Len(rn_waves[1]) = 3)

C3_Witness ==
  /\ rn_pc = "returned"
  /\ Len(rn_paths) = 3
  /\ rn_batchSize = 5
  /\ Len(rn_waves) = 1
  /\ Cardinality({k \in Positions : rn_returned[k].kind = "caught"}) = 1

\* position of path p in the sequence s of distinct paths
PositionIn(s, p) == CHOOSE k \in 1..Len(s) : s[k] = p

\* index (0-based) of the earliest priority keyword each path of the
\* universe contains, written out by hand; 99 stands for "no keyword"
C13_ExpectedRank(p) ==
  CASE p = "/api/items/list" -> 0
    [] p = "/api/items/{itemId}/routing" -> 0
    [] p = "/api/items/{\\ww}/routing" -> 0
    [] p = "/api/jobs/list" -> 3
    [] p = "/api/customers/list" -> 7
    [] OTHER -> 99

\* C13: order(paths) is a permutation of its input, sorted by the index of
\* the earliest priority keyword the path contains, paths without keyword
\* last, ties in input order; customers, items, jobs is ordered items, jobs,
\* customers; ordering an ordered list changes nothing.  Stated of the state
\* in which the ordering has just been computed (no later step assigns
\* rn_ordered).
C13_DependencyOrder ==
  (rn_pc = "loop" /\ rn_waves = <<>>) =>
    /\ Len(rn_ordered) = Len(rn_paths)
    /\ {rn_ordered[k] : k \in 1..Len(rn_ordered)} =
         {rn_paths[k] : k \in 1..Len(rn_paths)}
    /\ \A a, b \in 1..Len(rn_ordered) :
         a < b =>
           /\ C13_ExpectedRank(rn_ordered[a]) <= C13_ExpectedRank(rn_ordered[b])
           /\ C13_ExpectedRank(rn_ordered[a]) = C13_ExpectedRank(rn_ordered[b]) =>
                PositionIn(rn_paths, rn_ordered[a]) < PositionIn(rn_paths, rn_ordered[b])
    /\ rn_paths = <<"/api/customers/list", "/api/items/list", "/api/jobs/list">> =>
         rn_ordered = <<"/api/items/list", "/api/jobs/list", "/api/customers/list">>
    /\ sortDependencies(rn_ordered) = rn_ordered

C13_Witness ==
  /\ rn_pc = "loop"
  /\ rn_waves = <<>>
  /\ rn_paths = <<"/api/invoices/list", "/api/items/{\\ww}/routing", "/api/items/list">>
  /\ rn_ordered = <<"/api/items/{\\ww}/routing", "/api/items/list", "/api/invoices/list">>

\* ------------------------------------------------------------------------
\* syncResource: properties
\* ------------------------------------------------------------------------
\* the resource name the derivation rule gives for each path of SyncPaths,
\* worked out by hand
C15_ExpectedName(path) ==
  CASE path = "/api/items/list" -> "items_list"
    [] path = "/api/item-boms/list" -> "item_boms_list"
    [] path = "/api/items/{itemId}/routing" -> "items_routing"
    [] path = "/api/items/{\\ww}/routing" -> "items_routing"
    [] OTHER -> "?"

C15_AllowedChars ==
  {"a", "b", "c", "d", "e", "f", "g", "h", "i", "j", "k", "l", "m", "n", "o",
   "p", "q", "r", "s", "t", "u", "v", "w", "x", "y", "z", "_"}

\* C15: the resource name is a function of the path alone: empty, placeholder
\* and "api" segments dropped, the rest joined with "_", every character
\* outside [A-Za-z0-9_] replaced by "_"; the name has only such characters,
\* and a completed or skipped synchronization reports it.
C15_ResourceName ==
  /\ sy_pc \notin {"idle", "entry"} =>
       /\ sy_resource = C15_ExpectedName(sy_path)
       /\ \A i \in 1..Len(sy_resource) :
            SubSeq(sy_resource, i, i) \in C15_AllowedChars
  /\ sy_out.kind \in {"synced", "skipped"} =>
       sy_out.resource = C15_ExpectedName(sy_path)

C15_Witness ==
  /\ sy_pc = "done"
  /\ sy_path = "/api/item-boms/list"
  /\ sy_out.kind = "synced"
  /\ sy_out.resource = "item_boms_list"

\* the parent relation the rule derives from the placeholder of each
\* parameterized path of SyncPaths, worked out by hand
C12_ExpectedParent(path) ==
  CASE path = "/api/items/{itemId}/routing" -> "items"
    [] path = "/api/items/{\\ww}/routing" -> "\\wws"
    [] OTHER -> "?"

C12_Parameterized(path) ==
  \E i \in 1..Len(path) : SubSeq(path, i, i) = "{"

\* C12: for a path with a placeholder whose parent relation does not exist,
\* no fetch is made and the synchronization ends with an outcome of row
\* count 0 whose error names the missing parent relation.
C12_MissingParentSkips ==
  (C12_Parameterized(sy_path) /\ C12_ExpectedParent(sy_path) \notin db_exists)
    => /\ sy_fetches = <<>>
       /\ sy_pc # "thrown"
       /\ sy_pc = "done" =>
            /\ sy_out.rowcount = 0
            /\ sy_out.errors =
                 <<"missing parent " \o C12_ExpectedParent(sy_path)>>

\* the mirror_log rows that existed when the synchronization started and
\* belong to its resource
C20_PriorRows ==
  {k \in 1..sy_log0 : db_log[k].resource = C15_ExpectedName(sy_path)}

C20_ExpectedSince ==
  IF C20_PriorRows = {} THEN SinceDefault
  ELSE db_log[CHOOSE k \in C20_PriorRows :
                \A m \in C20_PriorRows : m <= k].last_date

\* C20: every fetch of a synchronization carries as lower bound the
\* timestamp of the most recent mirror_log row of the same resource, and the
\* 1900-01-01 sentinel when there is none; rows of other resources have no
\* influence.
C20_LowerBound ==
  \A i \in 1..Len(sy_fetches) : sy_fetches[i].since = C20_ExpectedSince

C20_Witness ==
  /\ Len(sy_fetches) > 0
  /\ sy_log0 = 2
  /\ db_log[1].resource = sy_resource
  /\ db_log[2].resource # sy_resource
  /\ sy_fetches[1].since = db_log[1].last_date
  /\ sy_fetches[1].since # db_log[2].last_date

\* C16: when a synchronization ends with an outcome that carries an error, a
\* mirror_log row of that resource written by this synchronization contains
\* the error.
C16_ErrorsLogged ==
  (sy_pc = "done" /\ Len(sy_out.errors) > 0) =>
    \E k \in (sy_log0 + 1)..Len(db_log) :
      /\ db_log[k].resource \in {sy_resource, sy_path}
      /\ \A e \in 1..Len(sy_out.errors) :
           \E j \in 1..Len(db_log[k].errors) :
             db_log[k].errors[j] = sy_out.errors[e]

\* C21: mirror_log is append-only: no step changes or removes a row that is
\* already there, a step adds at most one row, and a synchronization that
\* completes has added exactly one row, for its own resource.
C21_AppendOnly ==
  /\ [][/\ Len(db_log) <= Len(db_log')
        /\ Len(db_log') <= Len(db_log) + 1
        /\ SubSeq(db_log', 1, Len(db_log)) = db_log]_vars
  /\ [](sy_out.kind = "synced" =>
          /\ Len(db_log) = sy_log0 + 1
          /\ db_log[Len(db_log)].resource = sy_resource)

C21_Witness ==
  /\ sy_pc = "done"
  /\ sy_out.kind = "synced"
  /\ sy_log0 = 2
  /\ Len(db_log) = 3
  /\ db_log[1].resource = sy_resource
  /\ db_log[3].resource = sy_resource

\* C22: a synchronization of a path with a placeholder never fetches the
\* template path itself: every fetch it makes is for a path in which the
\* placeholder was replaced by a parent identifier, so no "{" is left.
C22_PlaceholderSubstituted ==
  C12_Parameterized(sy_path) =>
    \A i \in 1..Len(sy_fetches) :
      /\ sy_fetches[i].path # sy_path
      /\ ~C12_Parameterized(sy_fetches[i].path)

\* the synchronization is past the parent check of the fan-out branch
C23_InFanOut ==
  /\ sy_parent # ""
  /\ sy_parent \in db_exists
  /\ sy_pc \notin {"idle", "entry", "checkParent"}

\* the identifiers of the parent relation in ascending order, rows without
\* an identifier left out
C23_ParentIds ==
  LET ids == {db_rows[sy_parent][k] : k \in 1..Len(db_rows[sy_parent])} \ {0}
  IN CHOOSE q \in [1..Cardinality(ids) -> ids] :
       \A a, b \in 1..Cardinality(ids) : a < b => q[a] < q[b]

\* the records of the fetches that delivered an array, in fetch order
RECURSIVE C23_Fetched(_)
C23_Fetched(fs) ==
  IF fs = <<>> THEN <<>>
  ELSE (IF Head(fs).got.kind = "array" THEN Head(fs).got.rows ELSE <<>>)
         \o C23_Fetched(Tail(fs))

C23_StreamEnded == sy_pc \in {"finalSave", "writeLog", "analyze", "done"}

C24_ErrorsCarried ==
  (/\ C23_InFanOut
   /\ sy_out.kind = "synced"
   /\ \E k \in 1..Len(sy_fetches) : sy_fetches[k].got.kind = "throw")
    => /\ Len(sy_out.errors) > 0
       /\ Len(db_log) > sy_log0
       /\ Len(db_log[Len(db_log)].errors) > 0

\* the synchronization rejected in its fetch or while saving
C25_FetchOrSaveFailed ==
  /\ sy_pc = "thrown" \/ sy_out.kind = "caught"
  /\ sy_err \in {FetchErrorMessage, TypeErrorMessage, InsertErrorMessage}

\* C25: a mirror_log row is written only after every record of every array
\* the proxy delivered is in the relation and no insert is outstanding; a
\* synchronization that rejected in its fetch or while saving has written no
\* row, so the lower bound of the next run is the one this run used.
C25_WatermarkAfterPersist ==
  /\ Len(db_log) > sy_log0 =>
       LET rows == db_rows[sy_resource]
           want == C23_Fetched(sy_fetches)
       IN /\ sv_queue = <<>>
          /\ Len(rows) >= Len(want)
          /\ SubSeq(rows, Len(rows) - Len(want) + 1, Len(rows)) = want
  /\ C25_FetchOrSaveFailed =>
       /\ Len(db_log) = sy_log0
       /\ SinceDate(db_log, C15_ExpectedName(sy_path)) = C20_ExpectedSince

C25_Witness ==
  /\ sy_path = "/api/items/list"
  /\ sy_out.kind = "synced"
  /\ sy_fetches[1].got = ArrayData(<<1, 2, 3>>)
  /\ db_rows[sy_resource] = <<1, 1, 2, 3>>
  /\ Len(db_log) = sy_log0 + 1

\* C26: once a run has written its mirror_log row, every upstream record
\* created from the moment of its fetch up to the writing of the row is
\* either in the relation or was created at or after the last_date of the
\* row, so that the next run's DateFrom still covers it.
C26_WatermarkBoundary ==
  Len(db_log) > sy_log0 =>
    LET row == db_log[Len(db_log)]
        fetchedAt == sy_fetches[Len(sy_fetches)].at
        rows == db_rows[sy_resource]
    IN \A k \in 1..Len(up_created) :
         (fetchedAt <= up_created[k] /\ up_created[k] < row.synced_at) =>
           \/ \E j \in 1..Len(rows) : rows[j] = k
           \/ row.last_date <= up_created[k]

\* C30: a direct synchronization of a resource that has no mirror_log row
\* yet, whose single fetch delivered an empty array, ends with an outcome of
\* row count 0 and no errors.
C30_EmptyIsNotFailure ==
  (/\ ~C12_Parameterized(sy_path)
   /\ C20_PriorRows = {}
   /\ sy_pc = "done"
   /\ Len(sy_fetches) = 1
   /\ sy_fetches[1].got = ArrayData(<<>>))
    => /\ sy_out.rowcount = 0
       /\ sy_out.errors = <<>>

\* ------------------------------------------------------------------------
\* saveBatch: properties
\* ------------------------------------------------------------------------
\* C29: whenever saveBatch has returned, for any records argument, the empty
\* list included, the relation of its resource exists (created with its
\* payload column) and has the two derived columns and the identifier index.
C29_SaveEnsuresRelation ==
  sv_pc = "returned" =>
    /\ sv_resource \in db_exists
    /\ {"id", "createdutc", sv_resource \o "_id_idx"} \subseteq
         db_cols[sv_resource]

Paginating == cl_req.auto /\ IsListPath(cl_req.path) /\ cl_fetches # <<>>

\* the j-th upstream answer is a successful full page
FullPage(j) ==
  /\ cl_fetches[j].status \in 200..299
  /\ cl_fetches[j].list
  /\ cl_fetches[j].len = cl_take

\* the j-th upstream answer is a successful page shorter than the page size
ShortPage(j) ==
  /\ cl_fetches[j].status \in 200..299
  /\ cl_fetches[j].list
  /\ cl_fetches[j].len < cl_take

\* the j-th upstream answer has a non-success status
FailedPage(j) ==
  cl_fetches[j].status # 0 /\ cl_fetches[j].status \notin 200..299

\* C4: against an upstream answering n full pages of size P and then a page of
\* size k < P, with n+1 <= maxPages and n*P < maxRows, auto-pagination makes
\* exactly n+1 fetches and returns the n*P+k records in upstream order: no
\* fetch follows a short page, the run is not cut before the short page, and
\* the response is the concatenation of all pages.
C4_PaginationTermination ==
  Paginating =>
    LET m == Len(cl_fetches) IN
    /\ \A j \in 1..(m - 1) : FullPage(j)
    /\ (cl_pc = "done" /\ \A j \in 1..m : FullPage(j)) =>
         ~(m + 1 <= cl_maxPages /\ m * cl_take < cl_maxRows)
    /\ (cl_pc = "paging" \/ ShortPage(m)) =>
         /\ Len(cl_all) = m
         /\ \A j \in 1..m : cl_all[j] = [fetch |-> j, n |-> cl_fetches[j].len]
    /\ ShortPage(m) =>
         /\ cl_pc = "done"
         /\ cl_resp = [status |-> 200, kind |-> "rows", rows |-> cl_all]
         /\ AllLength(cl_resp.rows) = (m - 1) * cl_take + cl_fetches[m].len

C4_Witness ==
  /\ cl_pc = "done"
  /\ cl_take = 2
  /\ Len(cl_fetches) = 4
  /\ \A j \in 1..3 : cl_fetches[j].len = 2
  /\ cl_fetches[4].len = 1 /\ cl_fetches[4].list
  /\ cl_resp.kind = "rows"
  /\ AllLength(cl_resp.rows) = 7

\* C5: a non-success status of a page fetch stops auto-pagination at that
\* page and the response carries that status and that answer's body; rows
\* accumulated before are never returned as a successful result.
C5_ErrorAbortsPagination ==
  Paginating =>
    \A j \in 1..Len(cl_fetches) :
      FailedPage(j) =>
        /\ j = Len(cl_fetches)
        /\ cl_pc = "done"
        /\ cl_resp.status = cl_fetches[j].status
        /\ cl_resp.kind \in {"data", "fulcrum_unauthorized"}
        /\ cl_resp.fetch = j

C5_Witness ==
  /\ Paginating
  /\ cl_pc = "done"
  /\ Len(cl_fetches) = 3
  /\ AllLength(cl_all) > 0
  /\ cl_fetches[3].status = 500
  /\ cl_resp.status = 500

\* the credential a request provides: the header when it has one, otherwise
\* the body secret
C17_Provided ==
  IF cl_req.headerSecret # "" THEN cl_req.headerSecret ELSE cl_req.secret

\* C17: a request whose provided credential differs from the shared secret
\* is answered 401 invalid_proxy_secret and no upstream request is made; a
\* wrong header is not rescued by a correct body secret.
C17_SecretRequired ==
  (cl_pc # "idle" /\ C17_Provided # "good") =>
    /\ cl_pc = "done"
    /\ cl_resp.status = 401
    /\ cl_resp.kind = "invalid_proxy_secret"
    /\ cl_fetches = <<>>

C17_Witness ==
  /\ cl_pc = "done"
  /\ cl_req.headerSecret = "bad"
  /\ cl_req.secret = "good"
  /\ cl_req.path = "/api/items/list"
  /\ cl_resp.status = 401
  /\ cl_fetches = <<>>

\* ------------------------------------------------------------------------
\* GET /schema: properties
\* ------------------------------------------------------------------------
\* C18: a schema request without a credential equal to the shared secret is
\* answered with an authorization failure and never with the catalog.
C18_SchemaNeedsSecret ==
  (sc_pc = "responded" /\ sc_cred # "good") =>
    /\ sc_resp.status = 401
    /\ sc_resp.body.kind # "catalog"

\* ------------------------------------------------------------------------
\* main: properties
\* ------------------------------------------------------------------------
\* C19: the process ends with exit code 0 whenever the run has completed
\* (all waves settled, failed resources included) and with a non-zero code
\* when the schema request fails, in which case no synchronization was
\* started.
C19_ExitCode ==
  mn_pc = "exited" =>
    /\ rn_pc = "returned" => mn_exit = 0
    /\ mn_schema \in {"undefined", "throw"} =>
         /\ mn_exit # 0
         /\ rn_starts = <<>>

\* C27: for the engine's request the proxy stops paging only after a short
\* page or its 100th fetch, and once the direct synchronization has written
\* its mirror_log row the relation holds every upstream record at or after
\* the lower bound, when there are at most 50000 of them.
C27_AllPersisted ==
  /\ (cl_req.ap = EngineAutoPage /\ cl_pc = "done") =>
       ShortPage(Len(cl_fetches)) \/ Len(cl_fetches) = 100
  /\ (/\ Len(db_log) > sy_log0
      /\ Len(UpstreamSince(up_created, sy_since)) <= 50000) =>
       db_rows[sy_resource] = UpstreamSince(up_created, sy_since)

\* the value a setting takes: the default when the field is absent, else the
\* field brought into 1..cap
C28_Setting(field, default, cap) ==
  LET x == IF field = Undefined THEN default ELSE field
  IN IF x < 1 THEN 1 ELSE IF x > cap THEN cap ELSE x

\* autoPage.startSkip, else query.Skip, else 0
C28_StartSkip ==
  IF cl_req.ap.startSkip # Undefined THEN cl_req.ap.startSkip
  ELSE IF cl_req.ap.qSkip # Undefined THEN cl_req.ap.qSkip
  ELSE 0

\* rows delivered by the first n page fetches
RECURSIVE C28_RowsBefore(_)
C28_RowsBefore(n) ==
  IF n = 0 THEN 0 ELSE cl_fetches[n].len + C28_RowsBefore(n - 1)

\* C28: an auto-paginated call makes at most maxPages page fetches, maxPages
\* being the requested value (default 10) brought into 1..100 and the page
\* size the requested value brought into 1..500; the n-th fetch, n from 0,
\* asks for Skip = startSkip + n * Take; and a fetch is made only while the
\* rows accumulated before it are fewer than maxRows.  Stated for the latest
\* fetch of every state: each fetch is the latest one right after it is made
\* and the record of a fetch never changes.
C28_BoundedPagination ==
  Paginating =>
    /\ cl_maxPages = C28_Setting(cl_req.ap.maxPages, 10, 100)
    /\ cl_maxPages \in 1..100
    /\ cl_take \in 1..500
    /\ cl_maxRows = C28_Setting(cl_req.ap.maxRows, 2000, 100000)
    /\ Len(cl_fetches) <= cl_maxPages
    /\ LET n == Len(cl_fetches) IN
         /\ cl_fetches[n].skip = C28_StartSkip + (n - 1) * cl_take
         /\ cl_fetches[n].take = cl_take
         /\ C28_RowsBefore(n - 1) < cl_maxRows

C28_Witness ==
  /\ Paginating
  /\ cl_pc = "done"
  /\ cl_req.ap.maxPages = MaxPagesCap + 100
  /\ cl_maxPages = 100
  /\ cl_maxRows = 3
  /\ cl_take = 2
  /\ Len(cl_fetches) = 2
  /\ FullPage(1) /\ FullPage(2)
  /\ cl_fetches[2].skip = 9

\* ------------------------------------------------------------------------
\* saveBatch on a fresh store: batches
\* ------------------------------------------------------------------------
\* C31: one saveBatch call inserts its records in consecutive batches of
\* 1000, the last possibly smaller: when a batch is issued every insert of
\* the batches before it has been executed, the inserts of a batch are
\* issued together, and when the call is past its loop the relation holds
\* one row per record, in order.
C31_Batches ==
  LET n == Len(sv_data.rows)
      done == db_rows[sv_resource]
      upto == IF sv_i + 1000 < n THEN sv_i + 1000 ELSE n
  IN /\ sv_pc = "batch" =>
          /\ sv_i % 1000 = 0
          /\ sv_queue = <<>>
          /\ done = SubSeq(sv_data.rows, 1, IF sv_i < n THEN sv_i ELSE n)
     /\ sv_pc = "inserting" =>
          /\ sv_i % 1000 = 0
          /\ sv_i < n
          /\ Len(done) >= sv_i
          /\ done \o sv_queue = SubSeq(sv_data.rows, 1, upto)
     /\ (sv_pc \in {"alter", "returned"} /\ n > 0) =>
          /\ sv_queue = <<>>
          /\ done = sv_data.rows

C31_Witness ==
  /\ sv_pc = "inserting"
  /\ Len(sv_data.rows) = 1500
  /\ sv_i = 1000
  /\ Len(sv_queue) = 500
  /\ Len(db_rows[sv_resource]) = 1000

\* ------------------------------------------------------------------------
\* fan-out: the buffer
\* ------------------------------------------------------------------------
\* C32: in the fan-out branch, once an identifier has been processed the
\* buffer holds at most 50000 records; the rows of the relation followed by
\* the buffer are exactly the records fetched so far, each once and in fetch
\* order, and when the closing save has returned the relation holds every
\* record fetched, each once.
C32_BufferFlushed ==
  C23_InFanOut =>
    /\ sy_pc \in {"stream", "fetchId", "finalSave"} =>
         Len(sy_batchData) <= 50000
    /\ sy_pc \in {"stream", "fetchId"} =>
         db_rows[sy_resource] \o sy_batchData = C23_Fetched(sy_fetches)
    /\ sy_pc \in {"writeLog", "analyze"} \/ sy_out.kind = "synced" =>
         db_rows[sy_resource] = C23_Fetched(sy_fetches)

\* the first fetch delivered 50001 records and the intermediate flush is
\* under way
C32_Witness ==
  /\ C23_InFanOut
  /\ sy_pc = "flush"
  /\ sv_pc = "create"
  /\ Len(sy_fetches) = 1
  /\ Len(sy_batchData) = 50001
  /\ sv_data.rows = sy_batchData
  /\ sy_ids # <<>>


\* ---------------------------------------------------------------------------
\* Parent-ID Streamer
\* ---------------------------------------------------------------------------

RECURSIVE StreamedIds(_)
StreamedIds(yielded) ==
  IF yielded = <<>> THEN <<>>
  ELSE StreamedIds(SubSeq(yielded, 1, Len(yielded) - 1))
         \o yielded[Len(yielded)].ids

C33_Occurrences(seq, x) == Cardinality({k \in DOMAIN seq : seq[k] = x})

C33_Safe ==
  LET rows == db_rows[st_table]
      ids == StreamedIds(st_yielded)
  IN st_pc \in {"query", "end"} =>
       /\ st_yielded = <<>> => st_offset = 0
       /\ st_yielded # <<>> => st_yielded[1].at = 0
       /\ \A k \in DOMAIN st_yielded :
            /\ st_yielded[k].at < Len(rows)
            /\ Len(st_yielded[k].ids) <= st_batchSize
            /\ k > 1 => st_yielded[k].at = st_yielded[k - 1].at + st_batchSize
       /\ \A k \in 1..(Len(ids) - 1) : ids[k] <= ids[k + 1]
       /\ \A x \in RecordIds :
            C33_Occurrences(ids, x) <= C33_Occurrences(rows, x)
       /\ C33_Occurrences(ids, 0) = 0
       /\ st_pc = "end" =>
            /\ st_offset = Len(rows)
            /\ \A x \in RecordIds :
                 C33_Occurrences(ids, x) = C33_Occurrences(rows, x)

\* C33 (as amended): over an unchanging parent relation the streamer
\* terminates; it starts at offset zero, advances by the batch size, ends at
\* the first empty answer, and yields, in ascending identifier order and in
\* batches of at most the batch size, the identifier of every row that has
\* one, once per row: an identifier stored in k rows is yielded k times.
C33_StreamsEveryRow == []C33_Safe /\ <>(st_pc = "end")

C33_Witness ==
  /\ st_pc = "end"
  /\ st_batchSize = 2
  /\ Len(st_yielded) = 2
  /\ db_rows[st_table] = <<3, 0, 1>>
  /\ StreamedIds(st_yielded) = <<1, 3>>

\* C33 (as stated): once the streamer has ended, every non-empty identifier
\* of the relation has been yielded exactly once.
C33_EveryIdentifierOnce ==
  st_pc = "end" =>
    \A x \in RecordIds :
      C33_Occurrences(db_rows[st_table], x) > 0 =>
        C33_Occurrences(StreamedIds(st_yielded), x) = 1


\* ---------------------------------------------------------------------------
\* parent relation of a placeholder
\* ---------------------------------------------------------------------------

\* the list endpoint's synchronization stored its records and its watermark
C34_ListSynced ==
  /\ DeriveResource(ListPath) \in db_exists
  /\ db_rows[DeriveResource(ListPath)] # <<>>
  /\ LogRowsOf(db_log, DeriveResource(ListPath)) # {}

\* C34: after /api/items/list has been synchronized successfully, the
\* synchronization of an endpoint with a placeholder resolves, as its parent
\* relation, the relation the list synchronization wrote, finds it present
\* and is not skipped.
C34_ParentIsListRelation ==
  (C34_ListSynced /\ sy_path \in ChildPaths /\ sy_pc # "entry") =>
    /\ sy_parent = DeriveResource(ListPath)
    /\ sy_parent \in db_exists
    /\ sy_out.kind # "skipped"


\* ---------------------------------------------------------------------------
\* dependency order within a run
\* ---------------------------------------------------------------------------

C36_DistinctResourcesInWave ==
  \A k, j \in DOMAIN rn_st :
    (k # j /\ rn_st[k] = "running" /\ rn_st[j] = "running")
      => DeriveResource(rn_ordered[k]) # DeriveResource(rn_ordered[j])


\* ---------------------------------------------------------------------------
\* the final report
\* ---------------------------------------------------------------------------

\* C37: once all waves of a run have settled and main has left its try block,
\* the final report has been produced.
C37_ReportProduced ==
  (rn_pc = "returned" /\ mn_pc \in {"finally", "rejected", "resolved", "exited"})
    => mn_reported


\* ---------------------------------------------------------------------------
\* analyzeSchema
\* ---------------------------------------------------------------------------

\* the identifier-looking keys among the keys of the first 25 rows; the
\* suffix is compared without regard to case, as the code's own test does
C38_IdKeysOfSample ==
  {k \in UNION {ObjectKeys(an_rows[n]) :
                  n \in {m \in DOMAIN an_rows : m <= 25}} :
     Len(k) >= 2 /\ SubSeq(k, Len(k) - 1, Len(k)) \in {"Id", "id", "ID", "iD"}}

\* C38: the stored key fields are exactly the keys with suffix "Id" among
\* the union of the top-level keys of the sampled payloads (at most 25
\* rows), and a relationship is stored for exactly those keys.
C38_KeyFieldsAreIdKeys ==
  an_pc = "stored" =>
    /\ an_meta.key_fields = C38_IdKeysOfSample
    /\ DOMAIN an_meta.relationships = C38_IdKeysOfSample


\* ---------------------------------------------------------------------------
\* the schema catalog cache
\* ---------------------------------------------------------------------------

\* a catalog is cached and less than 24 hours lie between the request that
\* fetched it and the clock
C39_WithinTtl ==
  sc_cache # NoCatalog /\ sc_clock - sc_cacheAt < 24 * 60 * 60 * 1000

\* a step in which a request arrives (the clock stands still)
C39_RequestStep ==
  /\ sc_pc \in {"idle", "responded"}
  /\ sc_clock' = sc_clock
  /\ <<sc_pc, sc_cred, sc_reqNow, sc_resp>>' # <<sc_pc, sc_cred, sc_reqNow, sc_resp>>

C39_Step ==
  /\ (C39_RequestStep /\ C39_WithinTtl) =>
       /\ sc_pc' = "responded"
       /\ sc_resp' = [status |-> 200, body |-> sc_cache]
       /\ UNCHANGED <<sc_cache, sc_cacheAt, sc_fetches>>
  /\ (C39_RequestStep /\ ~C39_WithinTtl) =>
       /\ sc_pc' = "fetching"
       /\ UNCHANGED <<sc_cache, sc_cacheAt, sc_fetches>>
  /\ sc_fetches' # sc_fetches =>
       /\ sc_pc = "fetching"
       /\ sc_fetches' = sc_fetches + 1
       /\ sc_pc' = "responded"
       /\ sc_resp'.status \in {200, 500}
       /\ sc_resp'.status = 500 => UNCHANGED <<sc_cache, sc_cacheAt>>
       /\ sc_resp'.status = 200 =>
            /\ sc_cache' # NoCatalog
            /\ sc_resp'.body = sc_cache'
            /\ sc_cacheAt' = sc_reqNow
  /\ <<sc_cache, sc_cacheAt>>' # <<sc_cache, sc_cacheAt>> =>
       sc_fetches' # sc_fetches

\* C39: a request is answered with the cached catalog, without an upstream
\* fetch, while less than 24 hours have passed since the request whose fetch
\* filled the cache; the first request at or after expiry (or with nothing
\* cached) starts a fetch; a successful fetch replaces the catalog and its
\* fetch time; a failed fetch leaves both unchanged and its request is
\* answered with an error.
C39_CacheDiscipline == [][C39_Step]_vars

C39_Witness ==
  /\ sc_pc = "responded"
  /\ sc_resp.status = 500
  /\ sc_cache # NoCatalog
  /\ sc_reqNow - sc_cacheAt = SCHEMA_TTL_MS

====
